---- MODULE Spec2Model ----
(***************************************************************************)
(* inrcot: Garmin inReach MapShare KML feed -> Cursor-on-Target events.    *)
(*                                                                         *)
(* A model of inrcot/functions.py and inrcot/constants.py.                 *)
(*                                                                         *)
(* Representation of Python values:                                        *)
(*   str        a sequence of characters, "ab" = <<"a", "b">>; an ASCII    *)
(*              character is the string of it, a character above ASCII     *)
(*              the string of its code point, "U+00E9" (so is the grave    *)
(*              accent, "U+0060", which a TLA+ string cannot hold)         *)
(*   None       in a str position: the one-element sequence None           *)
(*              in an Element position: the record NoElement               *)
(*   dict       a function whose domain is the set of its keys             *)
(*   list       a sequence                                                 *)
(*   Element    a record [tag, attrib, text, children]; tags are written   *)
(*              without the {http://www.opengis.net/kml/2.2} namespace     *)
(* A call of one of the module's functions is an action; the variable ret  *)
(* records the call (its arguments) and how it ended: kind is "raise" or   *)
(* the Python type of the returned object, value the returned object.      *)
(***************************************************************************)
EXTENDS Integers, Sequences, FiniteSets, TLC

VARIABLES config, pc, tasks, feeds, ret

vars == <<config, pc, tasks, feeds, ret>>

----------------------------------------------------------------------------
(* Bounds of the model *)

\* most sections of a configuration
MaxSections == 2
\* most child elements of a KML Document
MaxChildren == 2

----------------------------------------------------------------------------
(* Python str, None *)

None == <<"None-object">>

\* how a call ended: kind is "raise" (value: the exception's type) or the
\* type of the returned object (value: the object)
Return(kind, value) == [kind |-> kind, value |-> value]

Raise(exception) == [kind |-> "raise", value |-> exception]

\* bool(x) of a str or None
Truthy(x) == x # None /\ x # << >>

\* str(x) of a str or None, as an f-string renders it
Format(x) == IF x = None THEN <<"N", "o", "n", "e">> ELSE x

\* A character of ASCII is the string of that character; a character outside
\* ASCII is written by its code point, "U+0666".

Digits == {"0", "1", "2", "3", "4", "5", "6", "7", "8", "9"}

\* the decimal digits outside ASCII (Unicode 14.0, category Nd); each row
\* holds the digits 0 to 9 of one script
UnicodeDigitBlocks ==
  <<<<"U+0660", "U+0661", "U+0662", "U+0663", "U+0664",
      "U+0665", "U+0666", "U+0667", "U+0668", "U+0669">>,
    <<"U+06F0", "U+06F1", "U+06F2", "U+06F3", "U+06F4",
      "U+06F5", "U+06F6", "U+06F7", "U+06F8", "U+06F9">>,
    <<"U+07C0", "U+07C1", "U+07C2", "U+07C3", "U+07C4",
      "U+07C5", "U+07C6", "U+07C7", "U+07C8", "U+07C9">>,
    <<"U+0966", "U+0967", "U+0968", "U+0969", "U+096A",
      "U+096B", "U+096C", "U+096D", "U+096E", "U+096F">>,
    <<"U+09E6", "U+09E7", "U+09E8", "U+09E9", "U+09EA",
      "U+09EB", "U+09EC", "U+09ED", "U+09EE", "U+09EF">>,
    <<"U+0A66", "U+0A67", "U+0A68", "U+0A69", "U+0A6A",
      "U+0A6B", "U+0A6C", "U+0A6D", "U+0A6E", "U+0A6F">>,
    <<"U+0AE6", "U+0AE7", "U+0AE8", "U+0AE9", "U+0AEA",
      "U+0AEB", "U+0AEC", "U+0AED", "U+0AEE", "U+0AEF">>,
    <<"U+0B66", "U+0B67", "U+0B68", "U+0B69", "U+0B6A",
      "U+0B6B", "U+0B6C", "U+0B6D", "U+0B6E", "U+0B6F">>,
    <<"U+0BE6", "U+0BE7", "U+0BE8", "U+0BE9", "U+0BEA",
      "U+0BEB", "U+0BEC", "U+0BED", "U+0BEE", "U+0BEF">>,
    <<"U+0C66", "U+0C67", "U+0C68", "U+0C69", "U+0C6A",
      "U+0C6B", "U+0C6C", "U+0C6D", "U+0C6E", "U+0C6F">>,
    <<"U+0CE6", "U+0CE7", "U+0CE8", "U+0CE9", "U+0CEA",
      "U+0CEB", "U+0CEC", "U+0CED", "U+0CEE", "U+0CEF">>,
    <<"U+0D66", "U+0D67", "U+0D68", "U+0D69", "U+0D6A",
      "U+0D6B", "U+0D6C", "U+0D6D", "U+0D6E", "U+0D6F">>,
    <<"U+0DE6", "U+0DE7", "U+0DE8", "U+0DE9", "U+0DEA",
      "U+0DEB", "U+0DEC", "U+0DED", "U+0DEE", "U+0DEF">>,
    <<"U+0E50", "U+0E51", "U+0E52", "U+0E53", "U+0E54",
      "U+0E55", "U+0E56", "U+0E57", "U+0E58", "U+0E59">>,
    <<"U+0ED0", "U+0ED1", "U+0ED2", "U+0ED3", "U+0ED4",
      "U+0ED5", "U+0ED6", "U+0ED7", "U+0ED8", "U+0ED9">>,
    <<"U+0F20", "U+0F21", "U+0F22", "U+0F23", "U+0F24",
      "U+0F25", "U+0F26", "U+0F27", "U+0F28", "U+0F29">>,
    <<"U+1040", "U+1041", "U+1042", "U+1043", "U+1044",
      "U+1045", "U+1046", "U+1047", "U+1048", "U+1049">>,
    <<"U+1090", "U+1091", "U+1092", "U+1093", "U+1094",
      "U+1095", "U+1096", "U+1097", "U+1098", "U+1099">>,
    <<"U+17E0", "U+17E1", "U+17E2", "U+17E3", "U+17E4",
      "U+17E5", "U+17E6", "U+17E7", "U+17E8", "U+17E9">>,
    <<"U+1810", "U+1811", "U+1812", "U+1813", "U+1814",
      "U+1815", "U+1816", "U+1817", "U+1818", "U+1819">>,
    <<"U+1946", "U+1947", "U+1948", "U+1949", "U+194A",
      "U+194B", "U+194C", "U+194D", "U+194E", "U+194F">>,
    <<"U+19D0", "U+19D1", "U+19D2", "U+19D3", "U+19D4",
      "U+19D5", "U+19D6", "U+19D7", "U+19D8", "U+19D9">>,
    <<"U+1A80", "U+1A81", "U+1A82", "U+1A83", "U+1A84",
      "U+1A85", "U+1A86", "U+1A87", "U+1A88", "U+1A89">>,
    <<"U+1A90", "U+1A91", "U+1A92", "U+1A93", "U+1A94",
      "U+1A95", "U+1A96", "U+1A97", "U+1A98", "U+1A99">>,
    <<"U+1B50", "U+1B51", "U+1B52", "U+1B53", "U+1B54",
      "U+1B55", "U+1B56", "U+1B57", "U+1B58", "U+1B59">>,
    <<"U+1BB0", "U+1BB1", "U+1BB2", "U+1BB3", "U+1BB4",
      "U+1BB5", "U+1BB6", "U+1BB7", "U+1BB8", "U+1BB9">>,
    <<"U+1C40", "U+1C41", "U+1C42", "U+1C43", "U+1C44",
      "U+1C45", "U+1C46", "U+1C47", "U+1C48", "U+1C49">>,
    <<"U+1C50", "U+1C51", "U+1C52", "U+1C53", "U+1C54",
      "U+1C55", "U+1C56", "U+1C57", "U+1C58", "U+1C59">>,
    <<"U+A620", "U+A621", "U+A622", "U+A623", "U+A624",
      "U+A625", "U+A626", "U+A627", "U+A628", "U+A629">>,
    <<"U+A8D0", "U+A8D1", "U+A8D2", "U+A8D3", "U+A8D4",
      "U+A8D5", "U+A8D6", "U+A8D7", "U+A8D8", "U+A8D9">>,
    <<"U+A900", "U+A901", "U+A902", "U+A903", "U+A904",
      "U+A905", "U+A906", "U+A907", "U+A908", "U+A909">>,
    <<"U+A9D0", "U+A9D1", "U+A9D2", "U+A9D3", "U+A9D4",
      "U+A9D5", "U+A9D6", "U+A9D7", "U+A9D8", "U+A9D9">>,
    <<"U+A9F0", "U+A9F1", "U+A9F2", "U+A9F3", "U+A9F4",
      "U+A9F5", "U+A9F6", "U+A9F7", "U+A9F8", "U+A9F9">>,
    <<"U+AA50", "U+AA51", "U+AA52", "U+AA53", "U+AA54",
      "U+AA55", "U+AA56", "U+AA57", "U+AA58", "U+AA59">>,
    <<"U+ABF0", "U+ABF1", "U+ABF2", "U+ABF3", "U+ABF4",
      "U+ABF5", "U+ABF6", "U+ABF7", "U+ABF8", "U+ABF9">>,
    <<"U+FF10", "U+FF11", "U+FF12", "U+FF13", "U+FF14",
      "U+FF15", "U+FF16", "U+FF17", "U+FF18", "U+FF19">>,
    <<"U+104A0", "U+104A1", "U+104A2", "U+104A3", "U+104A4",
      "U+104A5", "U+104A6", "U+104A7", "U+104A8", "U+104A9">>,
    <<"U+10D30", "U+10D31", "U+10D32", "U+10D33", "U+10D34",
      "U+10D35", "U+10D36", "U+10D37", "U+10D38", "U+10D39">>,
    <<"U+11066", "U+11067", "U+11068", "U+11069", "U+1106A",
      "U+1106B", "U+1106C", "U+1106D", "U+1106E", "U+1106F">>,
    <<"U+110F0", "U+110F1", "U+110F2", "U+110F3", "U+110F4",
      "U+110F5", "U+110F6", "U+110F7", "U+110F8", "U+110F9">>,
    <<"U+11136", "U+11137", "U+11138", "U+11139", "U+1113A",
      "U+1113B", "U+1113C", "U+1113D", "U+1113E", "U+1113F">>,
    <<"U+111D0", "U+111D1", "U+111D2", "U+111D3", "U+111D4",
      "U+111D5", "U+111D6", "U+111D7", "U+111D8", "U+111D9">>,
    <<"U+112F0", "U+112F1", "U+112F2", "U+112F3", "U+112F4",
      "U+112F5", "U+112F6", "U+112F7", "U+112F8", "U+112F9">>,
    <<"U+11450", "U+11451", "U+11452", "U+11453", "U+11454",
      "U+11455", "U+11456", "U+11457", "U+11458", "U+11459">>,
    <<"U+114D0", "U+114D1", "U+114D2", "U+114D3", "U+114D4",
      "U+114D5", "U+114D6", "U+114D7", "U+114D8", "U+114D9">>,
    <<"U+11650", "U+11651", "U+11652", "U+11653", "U+11654",
      "U+11655", "U+11656", "U+11657", "U+11658", "U+11659">>,
    <<"U+116C0", "U+116C1", "U+116C2", "U+116C3", "U+116C4",
      "U+116C5", "U+116C6", "U+116C7", "U+116C8", "U+116C9">>,
    <<"U+11730", "U+11731", "U+11732", "U+11733", "U+11734",
      "U+11735", "U+11736", "U+11737", "U+11738", "U+11739">>,
    <<"U+118E0", "U+118E1", "U+118E2", "U+118E3", "U+118E4",
      "U+118E5", "U+118E6", "U+118E7", "U+118E8", "U+118E9">>,
    <<"U+11950", "U+11951", "U+11952", "U+11953", "U+11954",
      "U+11955", "U+11956", "U+11957", "U+11958", "U+11959">>,
    <<"U+11C50", "U+11C51", "U+11C52", "U+11C53", "U+11C54",
      "U+11C55", "U+11C56", "U+11C57", "U+11C58", "U+11C59">>,
    <<"U+11D50", "U+11D51", "U+11D52", "U+11D53", "U+11D54",
      "U+11D55", "U+11D56", "U+11D57", "U+11D58", "U+11D59">>,
    <<"U+11DA0", "U+11DA1", "U+11DA2", "U+11DA3", "U+11DA4",
      "U+11DA5", "U+11DA6", "U+11DA7", "U+11DA8", "U+11DA9">>,
    <<"U+16A60", "U+16A61", "U+16A62", "U+16A63", "U+16A64",
      "U+16A65", "U+16A66", "U+16A67", "U+16A68", "U+16A69">>,
    <<"U+16AC0", "U+16AC1", "U+16AC2", "U+16AC3", "U+16AC4",
      "U+16AC5", "U+16AC6", "U+16AC7", "U+16AC8", "U+16AC9">>,
    <<"U+16B50", "U+16B51", "U+16B52", "U+16B53", "U+16B54",
      "U+16B55", "U+16B56", "U+16B57", "U+16B58", "U+16B59">>,
    <<"U+1D7CE", "U+1D7CF", "U+1D7D0", "U+1D7D1", "U+1D7D2",
      "U+1D7D3", "U+1D7D4", "U+1D7D5", "U+1D7D6", "U+1D7D7">>,
    <<"U+1D7D8", "U+1D7D9", "U+1D7DA", "U+1D7DB", "U+1D7DC",
      "U+1D7DD", "U+1D7DE", "U+1D7DF", "U+1D7E0", "U+1D7E1">>,
    <<"U+1D7E2", "U+1D7E3", "U+1D7E4", "U+1D7E5", "U+1D7E6",
      "U+1D7E7", "U+1D7E8", "U+1D7E9", "U+1D7EA", "U+1D7EB">>,
    <<"U+1D7EC", "U+1D7ED", "U+1D7EE", "U+1D7EF", "U+1D7F0",
      "U+1D7F1", "U+1D7F2", "U+1D7F3", "U+1D7F4", "U+1D7F5">>,
    <<"U+1D7F6", "U+1D7F7", "U+1D7F8", "U+1D7F9", "U+1D7FA",
      "U+1D7FB", "U+1D7FC", "U+1D7FD", "U+1D7FE", "U+1D7FF">>,
    <<"U+1E140", "U+1E141", "U+1E142", "U+1E143", "U+1E144",
      "U+1E145", "U+1E146", "U+1E147", "U+1E148", "U+1E149">>,
    <<"U+1E2F0", "U+1E2F1", "U+1E2F2", "U+1E2F3", "U+1E2F4",
      "U+1E2F5", "U+1E2F6", "U+1E2F7", "U+1E2F8", "U+1E2F9">>,
    <<"U+1E950", "U+1E951", "U+1E952", "U+1E953", "U+1E954",
      "U+1E955", "U+1E956", "U+1E957", "U+1E958", "U+1E959">>,
    <<"U+1FBF0", "U+1FBF1", "U+1FBF2", "U+1FBF3", "U+1FBF4",
      "U+1FBF5", "U+1FBF6", "U+1FBF7", "U+1FBF8", "U+1FBF9">>>>

UnicodeDigits ==
  {UnicodeDigitBlocks[b][i] : b \in DOMAIN UnicodeDigitBlocks, i \in 1..10}

\* the characters int() and float() read as a digit, and \d of a regular
\* expression matches
DecimalDigits == Digits \cup UnicodeDigits

\* the ASCII characters int() and float() strip: space, \t, \n, \v, \f, \r
AsciiSpace == {" ", "\t", "\n", "", "\f", "\r"}

\* the characters outside ASCII that int() and float() strip
UnicodeSpace ==
  {"U+0085", "U+00A0", "U+1680", "U+2000", "U+2001", "U+2002", "U+2003",
   "U+2004", "U+2005", "U+2006", "U+2007", "U+2008", "U+2009", "U+200A",
   "U+2028", "U+2029", "U+202F", "U+205F", "U+3000"}

NumberSpace == AsciiSpace \cup UnicodeSpace

\* the value of a decimal digit
DigitVal(c) ==
  CASE c = "0" -> 0 [] c = "1" -> 1 [] c = "2" -> 2 [] c = "3" -> 3
    [] c = "4" -> 4 [] c = "5" -> 5 [] c = "6" -> 6 [] c = "7" -> 7
    [] c = "8" -> 8 [] c = "9" -> 9
    [] OTHER -> (CHOOSE i \in 1..10 : \E b \in DOMAIN UnicodeDigitBlocks :
                   UnicodeDigitBlocks[b][i] = c) - 1

DigitChar(n) ==
  CASE n = 0 -> "0" [] n = 1 -> "1" [] n = 2 -> "2" [] n = 3 -> "3"
    [] n = 4 -> "4" [] n = 5 -> "5" [] n = 6 -> "6" [] n = 7 -> "7"
    [] n = 8 -> "8" [] n = 9 -> "9"

\* s.count(c) for a one-character c
StrCount(s, c) == Cardinality({i \in 1..Len(s) : s[i] = c})

\* c in s
HasChar(s, c) == \E i \in 1..Len(s) : s[i] = c

\* sub in s
Contains(s, sub) ==
  \E i \in 0..(Len(s) - Len(sub)) : SubSeq(s, i + 1, i + Len(sub)) = sub

\* s.replace(c, "") for a one-character c
RemoveChar(s, c) == SelectSeq(s, LAMBDA x : x # c)

\* the index of the first character of s that is in set, Len(s) + 1 if none
RECURSIVE FirstIn(_, _)
FirstIn(s, set) ==
  IF s = << >> \/ Head(s) \in set THEN 1 ELSE 1 + FirstIn(Tail(s), set)

\* s.split(c) for a one-character c: the fields between the separators
RECURSIVE StrSplit(_, _)
StrSplit(s, c) ==
  IF ~HasChar(s, c) THEN <<s>>
  ELSE <<SubSeq(s, 1, FirstIn(s, {c}) - 1)>>
         \o StrSplit(SubSeq(s, FirstIn(s, {c}) + 1, Len(s)), c)

\* s without the characters of set at its ends
RECURSIVE LStrip(_, _)
LStrip(s, set) ==
  IF s # << >> /\ Head(s) \in set THEN LStrip(Tail(s), set) ELSE s

RECURSIVE RStrip(_, _)
RStrip(s, set) ==
  IF s # << >> /\ s[Len(s)] \in set
  THEN RStrip(SubSeq(s, 1, Len(s) - 1), set) ELSE s

\* the text int() and float() parse: s without the space around it
Strip(s) == RStrip(LStrip(s, NumberSpace), NumberSpace)

LowerOf ==
  [A |-> "a", B |-> "b", C |-> "c", D |-> "d", E |-> "e", F |-> "f",
   G |-> "g", H |-> "h", I |-> "i", J |-> "j", K |-> "k", L |-> "l",
   M |-> "m", N |-> "n", O |-> "o", P |-> "p", Q |-> "q", R |-> "r",
   S |-> "s", T |-> "t", U |-> "u", V |-> "v", W |-> "w", X |-> "x",
   Y |-> "y", Z |-> "z"]

\* s with its ASCII letters in lower case: the case-blind comparison of
\* float() with "inf", "infinity" and "nan"
AsciiLower(s) ==
  [i \in 1..Len(s) |-> IF s[i] \in DOMAIN LowerOf THEN LowerOf[s[i]] ELSE s[i]]

\* n in hexadecimal digits, zero-padded to w places
RECURSIVE Hex(_, _)
Hex(n, w) ==
  IF n >= 16 \/ w > 1 THEN Hex(n \div 16, w - 1) \o Hex(n % 16, 1)
  ELSE <<"0", "1", "2", "3", "4", "5", "6", "7", "8", "9",
         "A", "B", "C", "D", "E", "F">>[n + 1]

\* the character of a code point above ASCII
Chr(n) == "U+" \o Hex(n, 4)

\* the characters of ranges of code points
CharsOf(ranges) ==
  UNION {{Chr(n) : n \in ranges[k][1]..ranges[k][2]} : k \in DOMAIN ranges}

\* the characters above ASCII with the property Cased, as ranges of code
\* points (Unicode 14.0.0)
CasedRanges ==
  <<
   <<\h00AA, \h00AA>>, <<\h00B5, \h00B5>>, <<\h00BA, \h00BA>>,
   <<\h00C0, \h00D6>>, <<\h00D8, \h00F6>>, <<\h00F8, \h01BA>>,
   <<\h01BC, \h01BF>>, <<\h01C4, \h0293>>, <<\h0295, \h02B8>>,
   <<\h02C0, \h02C1>>, <<\h02E0, \h02E4>>, <<\h0345, \h0345>>,
   <<\h0370, \h0373>>, <<\h0376, \h0377>>, <<\h037A, \h037D>>,
   <<\h037F, \h037F>>, <<\h0386, \h0386>>, <<\h0388, \h038A>>,
   <<\h038C, \h038C>>, <<\h038E, \h03A1>>, <<\h03A3, \h03F5>>,
   <<\h03F7, \h0481>>, <<\h048A, \h052F>>, <<\h0531, \h0556>>,
   <<\h0560, \h0588>>, <<\h10A0, \h10C5>>, <<\h10C7, \h10C7>>,
   <<\h10CD, \h10CD>>, <<\h10D0, \h10FA>>, <<\h10FD, \h10FF>>,
   <<\h13A0, \h13F5>>, <<\h13F8, \h13FD>>, <<\h1C80, \h1C88>>,
   <<\h1C90, \h1CBA>>, <<\h1CBD, \h1CBF>>, <<\h1D00, \h1DBF>>,
   <<\h1E00, \h1F15>>, <<\h1F18, \h1F1D>>, <<\h1F20, \h1F45>>,
   <<\h1F48, \h1F4D>>, <<\h1F50, \h1F57>>, <<\h1F59, \h1F59>>,
   <<\h1F5B, \h1F5B>>, <<\h1F5D, \h1F5D>>, <<\h1F5F, \h1F7D>>,
   <<\h1F80, \h1FB4>>, <<\h1FB6, \h1FBC>>, <<\h1FBE, \h1FBE>>,
   <<\h1FC2, \h1FC4>>, <<\h1FC6, \h1FCC>>, <<\h1FD0, \h1FD3>>,
   <<\h1FD6, \h1FDB>>, <<\h1FE0, \h1FEC>>, <<\h1FF2, \h1FF4>>,
   <<\h1FF6, \h1FFC>>, <<\h2071, \h2071>>, <<\h207F, \h207F>>,
   <<\h2090, \h209C>>, <<\h2102, \h2102>>, <<\h2107, \h2107>>,
   <<\h210A, \h2113>>, <<\h2115, \h2115>>, <<\h2119, \h211D>>,
   <<\h2124, \h2124>>, <<\h2126, \h2126>>, <<\h2128, \h2128>>,
   <<\h212A, \h212D>>, <<\h212F, \h2134>>, <<\h2139, \h2139>>,
   <<\h213C, \h213F>>, <<\h2145, \h2149>>, <<\h214E, \h214E>>,
   <<\h2160, \h217F>>, <<\h2183, \h2184>>, <<\h24B6, \h24E9>>,
   <<\h2C00, \h2CE4>>, <<\h2CEB, \h2CEE>>, <<\h2CF2, \h2CF3>>,
   <<\h2D00, \h2D25>>, <<\h2D27, \h2D27>>, <<\h2D2D, \h2D2D>>,
   <<\hA640, \hA66D>>, <<\hA680, \hA69D>>, <<\hA722, \hA787>>,
   <<\hA78B, \hA78E>>, <<\hA790, \hA7CA>>, <<\hA7D0, \hA7D1>>,
   <<\hA7D3, \hA7D3>>, <<\hA7D5, \hA7D9>>, <<\hA7F5, \hA7F6>>,
   <<\hA7F8, \hA7FA>>, <<\hAB30, \hAB5A>>, <<\hAB5C, \hAB68>>,
   <<\hAB70, \hABBF>>, <<\hFB00, \hFB06>>, <<\hFB13, \hFB17>>,
   <<\hFF21, \hFF3A>>, <<\hFF41, \hFF5A>>, <<\h10400, \h1044F>>,
   <<\h104B0, \h104D3>>, <<\h104D8, \h104FB>>, <<\h10570, \h1057A>>,
   <<\h1057C, \h1058A>>, <<\h1058C, \h10592>>, <<\h10594, \h10595>>,
   <<\h10597, \h105A1>>, <<\h105A3, \h105B1>>, <<\h105B3, \h105B9>>,
   <<\h105BB, \h105BC>>, <<\h10780, \h10780>>, <<\h10783, \h10785>>,
   <<\h10787, \h107B0>>, <<\h107B2, \h107BA>>, <<\h10C80, \h10CB2>>,
   <<\h10CC0, \h10CF2>>, <<\h118A0, \h118DF>>, <<\h16E40, \h16E7F>>,
   <<\h1D400, \h1D454>>, <<\h1D456, \h1D49C>>, <<\h1D49E, \h1D49F>>,
   <<\h1D4A2, \h1D4A2>>, <<\h1D4A5, \h1D4A6>>, <<\h1D4A9, \h1D4AC>>,
   <<\h1D4AE, \h1D4B9>>, <<\h1D4BB, \h1D4BB>>, <<\h1D4BD, \h1D4C3>>,
   <<\h1D4C5, \h1D505>>, <<\h1D507, \h1D50A>>, <<\h1D50D, \h1D514>>,
   <<\h1D516, \h1D51C>>, <<\h1D51E, \h1D539>>, <<\h1D53B, \h1D53E>>,
   <<\h1D540, \h1D544>>, <<\h1D546, \h1D546>>, <<\h1D54A, \h1D550>>,
   <<\h1D552, \h1D6A5>>, <<\h1D6A8, \h1D6C0>>, <<\h1D6C2, \h1D6DA>>,
   <<\h1D6DC, \h1D6FA>>, <<\h1D6FC, \h1D714>>, <<\h1D716, \h1D734>>,
   <<\h1D736, \h1D74E>>, <<\h1D750, \h1D76E>>, <<\h1D770, \h1D788>>,
   <<\h1D78A, \h1D7A8>>, <<\h1D7AA, \h1D7C2>>, <<\h1D7C4, \h1D7CB>>,
   <<\h1DF00, \h1DF09>>, <<\h1DF0B, \h1DF1E>>, <<\h1E900, \h1E943>>,
   <<\h1F130, \h1F149>>, <<\h1F150, \h1F169>>, <<\h1F170, \h1F189>>
  >>

\* the characters above ASCII with the property Case_Ignorable
CaseIgnorableRanges ==
  <<
   <<\h00A8, \h00A8>>, <<\h00AD, \h00AD>>, <<\h00AF, \h00AF>>,
   <<\h00B4, \h00B4>>, <<\h00B7, \h00B8>>, <<\h02B0, \h036F>>,
   <<\h0374, \h0375>>, <<\h037A, \h037A>>, <<\h0384, \h0385>>,
   <<\h0387, \h0387>>, <<\h0483, \h0489>>, <<\h0559, \h0559>>,
   <<\h055F, \h055F>>, <<\h0591, \h05BD>>, <<\h05BF, \h05BF>>,
   <<\h05C1, \h05C2>>, <<\h05C4, \h05C5>>, <<\h05C7, \h05C7>>,
   <<\h05F4, \h05F4>>, <<\h0600, \h0605>>, <<\h0610, \h061A>>,
   <<\h061C, \h061C>>, <<\h0640, \h0640>>, <<\h064B, \h065F>>,
   <<\h0670, \h0670>>, <<\h06D6, \h06DD>>, <<\h06DF, \h06E8>>,
   <<\h06EA, \h06ED>>, <<\h070F, \h070F>>, <<\h0711, \h0711>>,
   <<\h0730, \h074A>>, <<\h07A6, \h07B0>>, <<\h07EB, \h07F5>>,
   <<\h07FA, \h07FA>>, <<\h07FD, \h07FD>>, <<\h0816, \h082D>>,
   <<\h0859, \h085B>>, <<\h0888, \h0888>>, <<\h0890, \h0891>>,
   <<\h0898, \h089F>>, <<\h08C9, \h0902>>, <<\h093A, \h093A>>,
   <<\h093C, \h093C>>, <<\h0941, \h0948>>, <<\h094D, \h094D>>,
   <<\h0951, \h0957>>, <<\h0962, \h0963>>, <<\h0971, \h0971>>,
   <<\h0981, \h0981>>, <<\h09BC, \h09BC>>, <<\h09C1, \h09C4>>,
   <<\h09CD, \h09CD>>, <<\h09E2, \h09E3>>, <<\h09FE, \h09FE>>,
   <<\h0A01, \h0A02>>, <<\h0A3C, \h0A3C>>, <<\h0A41, \h0A42>>,
   <<\h0A47, \h0A48>>, <<\h0A4B, \h0A4D>>, <<\h0A51, \h0A51>>,
   <<\h0A70, \h0A71>>, <<\h0A75, \h0A75>>, <<\h0A81, \h0A82>>,
   <<\h0ABC, \h0ABC>>, <<\h0AC1, \h0AC5>>, <<\h0AC7, \h0AC8>>,
   <<\h0ACD, \h0ACD>>, <<\h0AE2, \h0AE3>>, <<\h0AFA, \h0AFF>>,
   <<\h0B01, \h0B01>>, <<\h0B3C, \h0B3C>>, <<\h0B3F, \h0B3F>>,
   <<\h0B41, \h0B44>>, <<\h0B4D, \h0B4D>>, <<\h0B55, \h0B56>>,
   <<\h0B62, \h0B63>>, <<\h0B82, \h0B82>>, <<\h0BC0, \h0BC0>>,
   <<\h0BCD, \h0BCD>>, <<\h0C00, \h0C00>>, <<\h0C04, \h0C04>>,
   <<\h0C3C, \h0C3C>>, <<\h0C3E, \h0C40>>, <<\h0C46, \h0C48>>,
   <<\h0C4A, \h0C4D>>, <<\h0C55, \h0C56>>, <<\h0C62, \h0C63>>,
   <<\h0C81, \h0C81>>, <<\h0CBC, \h0CBC>>, <<\h0CBF, \h0CBF>>,
   <<\h0CC6, \h0CC6>>, <<\h0CCC, \h0CCD>>, <<\h0CE2, \h0CE3>>,
   <<\h0D00, \h0D01>>, <<\h0D3B, \h0D3C>>, <<\h0D41, \h0D44>>,
   <<\h0D4D, \h0D4D>>, <<\h0D62, \h0D63>>, <<\h0D81, \h0D81>>,
   <<\h0DCA, \h0DCA>>, <<\h0DD2, \h0DD4>>, <<\h0DD6, \h0DD6>>,
   <<\h0E31, \h0E31>>, <<\h0E34, \h0E3A>>, <<\h0E46, \h0E4E>>,
   <<\h0EB1, \h0EB1>>, <<\h0EB4, \h0EBC>>, <<\h0EC6, \h0EC6>>,
   <<\h0EC8, \h0ECD>>, <<\h0F18, \h0F19>>, <<\h0F35, \h0F35>>,
   <<\h0F37, \h0F37>>, <<\h0F39, \h0F39>>, <<\h0F71, \h0F7E>>,
   <<\h0F80, \h0F84>>, <<\h0F86, \h0F87>>, <<\h0F8D, \h0F97>>,
   <<\h0F99, \h0FBC>>, <<\h0FC6, \h0FC6>>, <<\h102D, \h1030>>,
   <<\h1032, \h1037>>, <<\h1039, \h103A>>, <<\h103D, \h103E>>,
   <<\h1058, \h1059>>, <<\h105E, \h1060>>, <<\h1071, \h1074>>,
   <<\h1082, \h1082>>, <<\h1085, \h1086>>, <<\h108D, \h108D>>,
   <<\h109D, \h109D>>, <<\h10FC, \h10FC>>, <<\h135D, \h135F>>,
   <<\h1712, \h1714>>, <<\h1732, \h1733>>, <<\h1752, \h1753>>,
   <<\h1772, \h1773>>, <<\h17B4, \h17B5>>, <<\h17B7, \h17BD>>,
   <<\h17C6, \h17C6>>, <<\h17C9, \h17D3>>, <<\h17D7, \h17D7>>,
   <<\h17DD, \h17DD>>, <<\h180B, \h180F>>, <<\h1843, \h1843>>,
   <<\h1885, \h1886>>, <<\h18A9, \h18A9>>, <<\h1920, \h1922>>,
   <<\h1927, \h1928>>, <<\h1932, \h1932>>, <<\h1939, \h193B>>,
   <<\h1A17, \h1A18>>, <<\h1A1B, \h1A1B>>, <<\h1A56, \h1A56>>,
   <<\h1A58, \h1A5E>>, <<\h1A60, \h1A60>>, <<\h1A62, \h1A62>>,
   <<\h1A65, \h1A6C>>, <<\h1A73, \h1A7C>>, <<\h1A7F, \h1A7F>>,
   <<\h1AA7, \h1AA7>>, <<\h1AB0, \h1ACE>>, <<\h1B00, \h1B03>>,
   <<\h1B34, \h1B34>>, <<\h1B36, \h1B3A>>, <<\h1B3C, \h1B3C>>,
   <<\h1B42, \h1B42>>, <<\h1B6B, \h1B73>>, <<\h1B80, \h1B81>>,
   <<\h1BA2, \h1BA5>>, <<\h1BA8, \h1BA9>>, <<\h1BAB, \h1BAD>>,
   <<\h1BE6, \h1BE6>>, <<\h1BE8, \h1BE9>>, <<\h1BED, \h1BED>>,
   <<\h1BEF, \h1BF1>>, <<\h1C2C, \h1C33>>, <<\h1C36, \h1C37>>,
   <<\h1C78, \h1C7D>>, <<\h1CD0, \h1CD2>>, <<\h1CD4, \h1CE0>>,
   <<\h1CE2, \h1CE8>>, <<\h1CED, \h1CED>>, <<\h1CF4, \h1CF4>>,
   <<\h1CF8, \h1CF9>>, <<\h1D2C, \h1D6A>>, <<\h1D78, \h1D78>>,
   <<\h1D9B, \h1DFF>>, <<\h1FBD, \h1FBD>>, <<\h1FBF, \h1FC1>>,
   <<\h1FCD, \h1FCF>>, <<\h1FDD, \h1FDF>>, <<\h1FED, \h1FEF>>,
   <<\h1FFD, \h1FFE>>, <<\h200B, \h200F>>, <<\h2018, \h2019>>,
   <<\h2024, \h2024>>, <<\h2027, \h2027>>, <<\h202A, \h202E>>,
   <<\h2060, \h2064>>, <<\h2066, \h206F>>, <<\h2071, \h2071>>,
   <<\h207F, \h207F>>, <<\h2090, \h209C>>, <<\h20D0, \h20F0>>,
   <<\h2C7C, \h2C7D>>, <<\h2CEF, \h2CF1>>, <<\h2D6F, \h2D6F>>,
   <<\h2D7F, \h2D7F>>, <<\h2DE0, \h2DFF>>, <<\h2E2F, \h2E2F>>,
   <<\h3005, \h3005>>, <<\h302A, \h302D>>, <<\h3031, \h3035>>,
   <<\h303B, \h303B>>, <<\h3099, \h309E>>, <<\h30FC, \h30FE>>,
   <<\hA015, \hA015>>, <<\hA4F8, \hA4FD>>, <<\hA60C, \hA60C>>,
   <<\hA66F, \hA672>>, <<\hA674, \hA67D>>, <<\hA67F, \hA67F>>,
   <<\hA69C, \hA69F>>, <<\hA6F0, \hA6F1>>, <<\hA700, \hA721>>,
   <<\hA770, \hA770>>, <<\hA788, \hA78A>>, <<\hA7F2, \hA7F4>>,
   <<\hA7F8, \hA7F9>>, <<\hA802, \hA802>>, <<\hA806, \hA806>>,
   <<\hA80B, \hA80B>>, <<\hA825, \hA826>>, <<\hA82C, \hA82C>>,
   <<\hA8C4, \hA8C5>>, <<\hA8E0, \hA8F1>>, <<\hA8FF, \hA8FF>>,
   <<\hA926, \hA92D>>, <<\hA947, \hA951>>, <<\hA980, \hA982>>,
   <<\hA9B3, \hA9B3>>, <<\hA9B6, \hA9B9>>, <<\hA9BC, \hA9BD>>,
   <<\hA9CF, \hA9CF>>, <<\hA9E5, \hA9E6>>, <<\hAA29, \hAA2E>>,
   <<\hAA31, \hAA32>>, <<\hAA35, \hAA36>>, <<\hAA43, \hAA43>>,
   <<\hAA4C, \hAA4C>>, <<\hAA70, \hAA70>>, <<\hAA7C, \hAA7C>>,
   <<\hAAB0, \hAAB0>>, <<\hAAB2, \hAAB4>>, <<\hAAB7, \hAAB8>>,
   <<\hAABE, \hAABF>>, <<\hAAC1, \hAAC1>>, <<\hAADD, \hAADD>>,
   <<\hAAEC, \hAAED>>, <<\hAAF3, \hAAF4>>, <<\hAAF6, \hAAF6>>,
   <<\hAB5B, \hAB5F>>, <<\hAB69, \hAB6B>>, <<\hABE5, \hABE5>>,
   <<\hABE8, \hABE8>>, <<\hABED, \hABED>>, <<\hFB1E, \hFB1E>>,
   <<\hFBB2, \hFBC2>>, <<\hFE00, \hFE0F>>, <<\hFE13, \hFE13>>,
   <<\hFE20, \hFE2F>>, <<\hFE52, \hFE52>>, <<\hFE55, \hFE55>>,
   <<\hFEFF, \hFEFF>>, <<\hFF07, \hFF07>>, <<\hFF0E, \hFF0E>>,
   <<\hFF1A, \hFF1A>>, <<\hFF3E, \hFF3E>>, <<\hFF40, \hFF40>>,
   <<\hFF70, \hFF70>>, <<\hFF9E, \hFF9F>>, <<\hFFE3, \hFFE3>>,
   <<\hFFF9, \hFFFB>>, <<\h101FD, \h101FD>>, <<\h102E0, \h102E0>>,
   <<\h10376, \h1037A>>, <<\h10780, \h10785>>, <<\h10787, \h107B0>>,
   <<\h107B2, \h107BA>>, <<\h10A01, \h10A03>>, <<\h10A05, \h10A06>>,
   <<\h10A0C, \h10A0F>>, <<\h10A38, \h10A3A>>, <<\h10A3F, \h10A3F>>,
   <<\h10AE5, \h10AE6>>, <<\h10D24, \h10D27>>, <<\h10EAB, \h10EAC>>,
   <<\h10F46, \h10F50>>, <<\h10F82, \h10F85>>, <<\h11001, \h11001>>,
   <<\h11038, \h11046>>, <<\h11070, \h11070>>, <<\h11073, \h11074>>,
   <<\h1107F, \h11081>>, <<\h110B3, \h110B6>>, <<\h110B9, \h110BA>>,
   <<\h110BD, \h110BD>>, <<\h110C2, \h110C2>>, <<\h110CD, \h110CD>>,
   <<\h11100, \h11102>>, <<\h11127, \h1112B>>, <<\h1112D, \h11134>>,
   <<\h11173, \h11173>>, <<\h11180, \h11181>>, <<\h111B6, \h111BE>>,
   <<\h111C9, \h111CC>>, <<\h111CF, \h111CF>>, <<\h1122F, \h11231>>,
   <<\h11234, \h11234>>, <<\h11236, \h11237>>, <<\h1123E, \h1123E>>,
   <<\h112DF, \h112DF>>, <<\h112E3, \h112EA>>, <<\h11300, \h11301>>,
   <<\h1133B, \h1133C>>, <<\h11340, \h11340>>, <<\h11366, \h1136C>>,
   <<\h11370, \h11374>>, <<\h11438, \h1143F>>, <<\h11442, \h11444>>,
   <<\h11446, \h11446>>, <<\h1145E, \h1145E>>, <<\h114B3, \h114B8>>,
   <<\h114BA, \h114BA>>, <<\h114BF, \h114C0>>, <<\h114C2, \h114C3>>,
   <<\h115B2, \h115B5>>, <<\h115BC, \h115BD>>, <<\h115BF, \h115C0>>,
   <<\h115DC, \h115DD>>, <<\h11633, \h1163A>>, <<\h1163D, \h1163D>>,
   <<\h1163F, \h11640>>, <<\h116AB, \h116AB>>, <<\h116AD, \h116AD>>,
   <<\h116B0, \h116B5>>, <<\h116B7, \h116B7>>, <<\h1171D, \h1171F>>,
   <<\h11722, \h11725>>, <<\h11727, \h1172B>>, <<\h1182F, \h11837>>,
   <<\h11839, \h1183A>>, <<\h1193B, \h1193C>>, <<\h1193E, \h1193E>>,
   <<\h11943, \h11943>>, <<\h119D4, \h119D7>>, <<\h119DA, \h119DB>>,
   <<\h119E0, \h119E0>>, <<\h11A01, \h11A0A>>, <<\h11A33, \h11A38>>,
   <<\h11A3B, \h11A3E>>, <<\h11A47, \h11A47>>, <<\h11A51, \h11A56>>,
   <<\h11A59, \h11A5B>>, <<\h11A8A, \h11A96>>, <<\h11A98, \h11A99>>,
   <<\h11C30, \h11C36>>, <<\h11C38, \h11C3D>>, <<\h11C3F, \h11C3F>>,
   <<\h11C92, \h11CA7>>, <<\h11CAA, \h11CB0>>, <<\h11CB2, \h11CB3>>,
   <<\h11CB5, \h11CB6>>, <<\h11D31, \h11D36>>, <<\h11D3A, \h11D3A>>,
   <<\h11D3C, \h11D3D>>, <<\h11D3F, \h11D45>>, <<\h11D47, \h11D47>>,
   <<\h11D90, \h11D91>>, <<\h11D95, \h11D95>>, <<\h11D97, \h11D97>>,
   <<\h11EF3, \h11EF4>>, <<\h13430, \h13438>>, <<\h16AF0, \h16AF4>>,
   <<\h16B30, \h16B36>>, <<\h16B40, \h16B43>>, <<\h16F4F, \h16F4F>>,
   <<\h16F8F, \h16F9F>>, <<\h16FE0, \h16FE1>>, <<\h16FE3, \h16FE4>>,
   <<\h1AFF0, \h1AFF3>>, <<\h1AFF5, \h1AFFB>>, <<\h1AFFD, \h1AFFE>>,
   <<\h1BC9D, \h1BC9E>>, <<\h1BCA0, \h1BCA3>>, <<\h1CF00, \h1CF2D>>,
   <<\h1CF30, \h1CF46>>, <<\h1D167, \h1D169>>, <<\h1D173, \h1D182>>,
   <<\h1D185, \h1D18B>>, <<\h1D1AA, \h1D1AD>>, <<\h1D242, \h1D244>>,
   <<\h1DA00, \h1DA36>>, <<\h1DA3B, \h1DA6C>>, <<\h1DA75, \h1DA75>>,
   <<\h1DA84, \h1DA84>>, <<\h1DA9B, \h1DA9F>>, <<\h1DAA1, \h1DAAF>>,
   <<\h1E000, \h1E006>>, <<\h1E008, \h1E018>>, <<\h1E01B, \h1E021>>,
   <<\h1E023, \h1E024>>, <<\h1E026, \h1E02A>>, <<\h1E130, \h1E13D>>,
   <<\h1E2AE, \h1E2AE>>, <<\h1E2EC, \h1E2EF>>, <<\h1E8D0, \h1E8D6>>,
   <<\h1E944, \h1E94B>>, <<\h1F3FB, \h1F3FF>>, <<\hE0001, \hE0001>>,
   <<\hE0020, \hE007F>>, <<\hE0100, \hE01EF>>
  >>

\* the characters above ASCII whose lower case is one other character above
\* ASCII: <<first, last, step, lower - upper>>
LowerRuns ==
  <<
   <<\h00C0, \h00D6, 1, 32>>, <<\h00D8, \h00DE, 1, 32>>,
   <<\h0100, \h012E, 2, 1>>, <<\h0132, \h0136, 2, 1>>,
   <<\h0139, \h0147, 2, 1>>, <<\h014A, \h0176, 2, 1>>,
   <<\h0178, \h0178, 1, -121>>, <<\h0179, \h017D, 2, 1>>,
   <<\h0181, \h0181, 1, 210>>, <<\h0182, \h0184, 2, 1>>,
   <<\h0186, \h0186, 1, 206>>, <<\h0187, \h0187, 1, 1>>,
   <<\h0189, \h018A, 1, 205>>, <<\h018B, \h018B, 1, 1>>,
   <<\h018E, \h018E, 1, 79>>, <<\h018F, \h018F, 1, 202>>,
   <<\h0190, \h0190, 1, 203>>, <<\h0191, \h0191, 1, 1>>,
   <<\h0193, \h0193, 1, 205>>, <<\h0194, \h0194, 1, 207>>,
   <<\h0196, \h0196, 1, 211>>, <<\h0197, \h0197, 1, 209>>,
   <<\h0198, \h0198, 1, 1>>, <<\h019C, \h019C, 1, 211>>,
   <<\h019D, \h019D, 1, 213>>, <<\h019F, \h019F, 1, 214>>,
   <<\h01A0, \h01A4, 2, 1>>, <<\h01A6, \h01A6, 1, 218>>,
   <<\h01A7, \h01A7, 1, 1>>, <<\h01A9, \h01A9, 1, 218>>,
   <<\h01AC, \h01AC, 1, 1>>, <<\h01AE, \h01AE, 1, 218>>,
   <<\h01AF, \h01AF, 1, 1>>, <<\h01B1, \h01B2, 1, 217>>,
   <<\h01B3, \h01B5, 2, 1>>, <<\h01B7, \h01B7, 1, 219>>,
   <<\h01B8, \h01B8, 1, 1>>, <<\h01BC, \h01BC, 1, 1>>,
   <<\h01C4, \h01C4, 1, 2>>, <<\h01C5, \h01C5, 1, 1>>,
   <<\h01C7, \h01C7, 1, 2>>, <<\h01C8, \h01C8, 1, 1>>,
   <<\h01CA, \h01CA, 1, 2>>, <<\h01CB, \h01DB, 2, 1>>,
   <<\h01DE, \h01EE, 2, 1>>, <<\h01F1, \h01F1, 1, 2>>,
   <<\h01F2, \h01F4, 2, 1>>, <<\h01F6, \h01F6, 1, -97>>,
   <<\h01F7, \h01F7, 1, -56>>, <<\h01F8, \h021E, 2, 1>>,
   <<\h0220, \h0220, 1, -130>>, <<\h0222, \h0232, 2, 1>>,
   <<\h023A, \h023A, 1, 10795>>, <<\h023B, \h023B, 1, 1>>,
   <<\h023D, \h023D, 1, -163>>, <<\h023E, \h023E, 1, 10792>>,
   <<\h0241, \h0241, 1, 1>>, <<\h0243, \h0243, 1, -195>>,
   <<\h0244, \h0244, 1, 69>>, <<\h0245, \h0245, 1, 71>>,
   <<\h0246, \h024E, 2, 1>>, <<\h0370, \h0372, 2, 1>>,
   <<\h0376, \h0376, 1, 1>>, <<\h037F, \h037F, 1, 116>>,
   <<\h0386, \h0386, 1, 38>>, <<\h0388, \h038A, 1, 37>>,
   <<\h038C, \h038C, 1, 64>>, <<\h038E, \h038F, 1, 63>>,
   <<\h0391, \h03A1, 1, 32>>, <<\h03A3, \h03AB, 1, 32>>,
   <<\h03CF, \h03CF, 1, 8>>, <<\h03D8, \h03EE, 2, 1>>,
   <<\h03F4, \h03F4, 1, -60>>, <<\h03F7, \h03F7, 1, 1>>,
   <<\h03F9, \h03F9, 1, -7>>, <<\h03FA, \h03FA, 1, 1>>,
   <<\h03FD, \h03FF, 1, -130>>, <<\h0400, \h040F, 1, 80>>,
   <<\h0410, \h042F, 1, 32>>, <<\h0460, \h0480, 2, 1>>,
   <<\h048A, \h04BE, 2, 1>>, <<\h04C0, \h04C0, 1, 15>>,
   <<\h04C1, \h04CD, 2, 1>>, <<\h04D0, \h052E, 2, 1>>,
   <<\h0531, \h0556, 1, 48>>, <<\h10A0, \h10C5, 1, 7264>>,
   <<\h10C7, \h10C7, 1, 7264>>, <<\h10CD, \h10CD, 1, 7264>>,
   <<\h13A0, \h13EF, 1, 38864>>, <<\h13F0, \h13F5, 1, 8>>,
   <<\h1C90, \h1CBA, 1, -3008>>, <<\h1CBD, \h1CBF, 1, -3008>>,
   <<\h1E00, \h1E94, 2, 1>>, <<\h1E9E, \h1E9E, 1, -7615>>,
   <<\h1EA0, \h1EFE, 2, 1>>, <<\h1F08, \h1F0F, 1, -8>>,
   <<\h1F18, \h1F1D, 1, -8>>, <<\h1F28, \h1F2F, 1, -8>>,
   <<\h1F38, \h1F3F, 1, -8>>, <<\h1F48, \h1F4D, 1, -8>>,
   <<\h1F59, \h1F5F, 2, -8>>, <<\h1F68, \h1F6F, 1, -8>>,
   <<\h1F88, \h1F8F, 1, -8>>, <<\h1F98, \h1F9F, 1, -8>>,
   <<\h1FA8, \h1FAF, 1, -8>>, <<\h1FB8, \h1FB9, 1, -8>>,
   <<\h1FBA, \h1FBB, 1, -74>>, <<\h1FBC, \h1FBC, 1, -9>>,
   <<\h1FC8, \h1FCB, 1, -86>>, <<\h1FCC, \h1FCC, 1, -9>>,
   <<\h1FD8, \h1FD9, 1, -8>>, <<\h1FDA, \h1FDB, 1, -100>>,
   <<\h1FE8, \h1FE9, 1, -8>>, <<\h1FEA, \h1FEB, 1, -112>>,
   <<\h1FEC, \h1FEC, 1, -7>>, <<\h1FF8, \h1FF9, 1, -128>>,
   <<\h1FFA, \h1FFB, 1, -126>>, <<\h1FFC, \h1FFC, 1, -9>>,
   <<\h2126, \h2126, 1, -7517>>, <<\h212B, \h212B, 1, -8262>>,
   <<\h2132, \h2132, 1, 28>>, <<\h2160, \h216F, 1, 16>>,
   <<\h2183, \h2183, 1, 1>>, <<\h24B6, \h24CF, 1, 26>>,
   <<\h2C00, \h2C2F, 1, 48>>, <<\h2C60, \h2C60, 1, 1>>,
   <<\h2C62, \h2C62, 1, -10743>>, <<\h2C63, \h2C63, 1, -3814>>,
   <<\h2C64, \h2C64, 1, -10727>>, <<\h2C67, \h2C6B, 2, 1>>,
   <<\h2C6D, \h2C6D, 1, -10780>>, <<\h2C6E, \h2C6E, 1, -10749>>,
   <<\h2C6F, \h2C6F, 1, -10783>>, <<\h2C70, \h2C70, 1, -10782>>,
   <<\h2C72, \h2C72, 1, 1>>, <<\h2C75, \h2C75, 1, 1>>,
   <<\h2C7E, \h2C7F, 1, -10815>>, <<\h2C80, \h2CE2, 2, 1>>,
   <<\h2CEB, \h2CED, 2, 1>>, <<\h2CF2, \h2CF2, 1, 1>>,
   <<\hA640, \hA66C, 2, 1>>, <<\hA680, \hA69A, 2, 1>>,
   <<\hA722, \hA72E, 2, 1>>, <<\hA732, \hA76E, 2, 1>>,
   <<\hA779, \hA77B, 2, 1>>, <<\hA77D, \hA77D, 1, -35332>>,
   <<\hA77E, \hA786, 2, 1>>, <<\hA78B, \hA78B, 1, 1>>,
   <<\hA78D, \hA78D, 1, -42280>>, <<\hA790, \hA792, 2, 1>>,
   <<\hA796, \hA7A8, 2, 1>>, <<\hA7AA, \hA7AA, 1, -42308>>,
   <<\hA7AB, \hA7AB, 1, -42319>>, <<\hA7AC, \hA7AC, 1, -42315>>,
   <<\hA7AD, \hA7AD, 1, -42305>>, <<\hA7AE, \hA7AE, 1, -42308>>,
   <<\hA7B0, \hA7B0, 1, -42258>>, <<\hA7B1, \hA7B1, 1, -42282>>,
   <<\hA7B2, \hA7B2, 1, -42261>>, <<\hA7B3, \hA7B3, 1, 928>>,
   <<\hA7B4, \hA7C2, 2, 1>>, <<\hA7C4, \hA7C4, 1, -48>>,
   <<\hA7C5, \hA7C5, 1, -42307>>, <<\hA7C6, \hA7C6, 1, -35384>>,
   <<\hA7C7, \hA7C9, 2, 1>>, <<\hA7D0, \hA7D0, 1, 1>>,
   <<\hA7D6, \hA7D8, 2, 1>>, <<\hA7F5, \hA7F5, 1, 1>>,
   <<\hFF21, \hFF3A, 1, 32>>, <<\h10400, \h10427, 1, 40>>,
   <<\h104B0, \h104D3, 1, 40>>, <<\h10570, \h1057A, 1, 39>>,
   <<\h1057C, \h1058A, 1, 39>>, <<\h1058C, \h10592, 1, 39>>,
   <<\h10594, \h10595, 1, 39>>, <<\h10C80, \h10CB2, 1, 64>>,
   <<\h118A0, \h118BF, 1, 32>>, <<\h16E40, \h16E5F, 1, 32>>,
   <<\h1E900, \h1E921, 1, 34>>
  >>

\* the characters str.lower() takes for cased (_PyUnicode_IsCased)
Cased ==
  DOMAIN LowerOf \cup {LowerOf[c] : c \in DOMAIN LowerOf}
    \cup CharsOf(CasedRanges)

\* the characters str.lower() passes over around a capital sigma
\* (_PyUnicode_IsCaseIgnorable)
CaseIgnorable ==
  {"'", ".", ":", "^", "U+0060"} \cup CharsOf(CaseIgnorableRanges)

\* each character of the runs with its lower case; the two characters whose
\* lower case is or starts with an ASCII letter are the Kelvin sign and the
\* capital I with dot above
LowerPairs ==
  UNION {{<<Chr(n), <<Chr(n + LowerRuns[k][4])>> >> :
            n \in {m \in LowerRuns[k][1]..LowerRuns[k][2] :
                     (m - LowerRuns[k][1]) % LowerRuns[k][3] = 0}} :
         k \in DOMAIN LowerRuns}
    \cup {<<"U+212A", <<"k">> >>, <<"U+0130", <<"i", "U+0307">> >>}

\* _PyUnicode_ToLowerFull of the characters above ASCII that have a lower
\* case
UnicodeLowerOf ==
  [c \in {p[1] : p \in LowerPairs} |->
     (CHOOSE p \in LowerPairs : p[1] = c)[2]]

\* the capital sigma at place i of s ends a word: the nearest character
\* before it that is not case-ignorable is cased, and the nearest such
\* character after it, if any, is not
final_sigma(s, i) ==
  /\ \E j \in 1..(i - 1) :
        /\ s[j] \notin CaseIgnorable /\ s[j] \in Cased
        /\ \A k \in (j + 1)..(i - 1) : s[k] \in CaseIgnorable
  /\ ~\E j \in (i + 1)..Len(s) :
        /\ s[j] \notin CaseIgnorable /\ s[j] \in Cased
        /\ \A k \in (i + 1)..(j - 1) : s[k] \in CaseIgnorable

\* the lower case of the character at place i of s
lower_ucs4(s, i) ==
  IF s[i] = "U+03A3"
  THEN IF final_sigma(s, i) THEN <<"U+03C2">> ELSE <<"U+03C3">>
  ELSE IF s[i] \in DOMAIN LowerOf THEN <<LowerOf[s[i]]>>
  ELSE IF s[i] \in DOMAIN UnicodeLowerOf THEN UnicodeLowerOf[s[i]]
  ELSE <<s[i]>>

RECURSIVE LowerFrom(_, _)
LowerFrom(s, i) ==
  IF i > Len(s) THEN << >> ELSE lower_ucs4(s, i) \o LowerFrom(s, i + 1)

\* s.lower()
Lower(s) == LowerFrom(s, 1)

\* the value of a sequence of decimal digits
RECURSIVE DecVal(_)
DecVal(s) ==
  IF s = << >> THEN 0
  ELSE 10 * DecVal(SubSeq(s, 1, Len(s) - 1)) + DigitVal(s[Len(s)])

\* n as decimal digits, zero-padded to w places ("%0wd")
RECURSIVE ZeroPad(_, _)
ZeroPad(n, w) ==
  IF w <= 1 /\ n < 10 THEN <<DigitChar(n)>>
  ELSE ZeroPad(n \div 10, w - 1) \o <<DigitChar(n % 10)>>

AllDigits(f) == f # << >> /\ \A i \in 1..Len(f) : f[i] \in DecimalDigits

\* s without a leading sign
Unsigned(s) == IF s # << >> /\ Head(s) \in {"+", "-"} THEN Tail(s) ELSE s

\* every underscore of t stands between two digits
UnderscoresBetweenDigits(t) ==
  \A i \in 1..Len(t) :
     t[i] = "_" => /\ 1 < i /\ i < Len(t)
                   /\ t[i - 1] \in DecimalDigits
                   /\ t[i + 1] \in DecimalDigits

\* digits with single underscores between digits
IsIntBody(body) ==
  /\ UnderscoresBetweenDigits(body)
  /\ AllDigits(RemoveChar(body, "_"))

IntOfStripped(t) ==
  IF IsIntBody(Unsigned(t))
  THEN Return("int", (IF Head(t) = "-" THEN -1 ELSE 1)
                       * DecVal(RemoveChar(Unsigned(t), "_")))
  ELSE Raise("ValueError")

\* int(s) of a str or None: TypeError for None; for a text, optional space
\* around, an optional sign, digits with single underscores between digits,
\* and ValueError for any other text.  (Texts of up to 9 digits, which the
\* integers of the model hold.)
IntParse(s) ==
  IF s = None THEN Raise("TypeError") ELSE IntOfStripped(Strip(s))

\* a decimal mantissa: digits and at most one point, at least one digit
IsMantissa(m) ==
  /\ \A i \in 1..Len(m) : m[i] \in DecimalDigits \cup {"."}
  /\ StrCount(m, ".") <= 1
  /\ \E i \in 1..Len(m) : m[i] \in DecimalDigits

\* u is the text without space, underscores and sign, e the place of its
\* exponent mark (Len(u) + 1 if it has none)
IsFloatAt(u, e) ==
  /\ IsMantissa(SubSeq(u, 1, e - 1))
  /\ e <= Len(u) => AllDigits(Unsigned(SubSeq(u, e + 1, Len(u))))

\* the spellings of infinity and of not-a-number, in lower case
InfNan ==
  {<<"i", "n", "f">>, <<"i", "n", "f", "i", "n", "i", "t", "y">>,
   <<"n", "a", "n">>}

IsFloatBody(u) ==
  AsciiLower(u) \in InfNan \/ IsFloatAt(u, FirstIn(u, {"e", "E"}))

\* float(s) accepts the text s (pyproj converts each scalar argument with
\* float()): optional space around, an optional sign, then inf, infinity or
\* nan in any case, or a decimal mantissa with at least one digit and at most
\* one point and an optional exponent; single underscores may stand between
\* digits.
IsFloat(s) ==
  /\ UnderscoresBetweenDigits(Strip(s))
  /\ IsFloatBody(Unsigned(RemoveChar(Strip(s), "_")))

----------------------------------------------------------------------------
(* datetime: strptime, + timedelta, isoformat *)

IsLeap(y) == y % 4 = 0 /\ (y % 100 # 0 \/ y % 400 = 0)

DaysInMonth(y, m) ==
  IF m = 2 THEN (IF IsLeap(y) THEN 29 ELSE 28)
  ELSE IF m \in {4, 6, 9, 11} THEN 30 ELSE 31

RECURSIVE DaysBeforeMonth(_, _)
DaysBeforeMonth(y, m) ==
  IF m <= 1 THEN 0 ELSE DaysBeforeMonth(y, m - 1) + DaysInMonth(y, m - 1)

DaysBeforeYear(y) ==
  (y - 1) * 365 + (y - 1) \div 4 - (y - 1) \div 100 + (y - 1) \div 400

\* datetime.toordinal(): 0001-01-01 is day 1
ToOrdinal(dt) ==
  DaysBeforeYear(dt.year) + DaysBeforeMonth(dt.year, dt.month) + dt.day

SecondOfDay(dt) == dt.hour * 3600 + dt.minute * 60 + dt.second

\* the date of day n (from 0) of year y: <<year, month, day>>
DateInYear(y, n) ==
  LET m == CHOOSE k \in 1..12 :
             /\ DaysBeforeMonth(y, k) <= n
             /\ n < DaysBeforeMonth(y, k) + DaysInMonth(y, k)
  IN  <<y, m, n - DaysBeforeMonth(y, m) + 1>>

\* n1 years into a 4-year cycle, n4 cycles into a century, n100 centuries
\* into the 400-year cycle that starts with year y400; n days into the year
DateInCycle(y400, n100, n4, n1, n) ==
  IF n1 = 4 \/ n100 = 4
  THEN <<y400 + n100 * 100 + n4 * 4 + n1 - 1, 12, 31>>
  ELSE DateInYear(y400 + n100 * 100 + n4 * 4 + n1, n)

DateIn4(y400, n100, n4, r4) ==
  DateInCycle(y400, n100, n4, r4 \div 365, r4 % 365)

DateIn100(y400, n100, r100) ==
  DateIn4(y400, n100, r100 \div 1461, r100 % 1461)

DateIn400(y400, r400) == DateIn100(y400, r400 \div 36524, r400 % 36524)

\* the date of an ordinal: <<year, month, day>>
FromOrdinal(ord) ==
  DateIn400(((ord - 1) \div 146097) * 400 + 1, (ord - 1) % 146097)

\* The directives of the format, as the regular expressions strptime makes
\* of them; \d is any decimal digit, a class such as [0-5] ASCII digits.

\* one character of tens, then \d
TensAndDigit(f, tens) ==
  Len(f) = 2 /\ f[1] \in tens /\ f[2] \in DecimalDigits

\* two characters, each of its class
TwoOf(f, first, second) == Len(f) = 2 /\ f[1] \in first /\ f[2] \in second

OneOf(f, class) == Len(f) = 1 /\ f[1] \in class

\* %Y: \d\d\d\d
YearField(f) == Len(f) = 4 /\ AllDigits(f)

\* %m: 1[0-2]|0[1-9]|[1-9]
MonthField(f) ==
  \/ TwoOf(f, {"1"}, {"0", "1", "2"})
  \/ TwoOf(f, {"0"}, Digits \ {"0"})
  \/ OneOf(f, Digits \ {"0"})

\* %d: 3[0-1]|[1-2]\d|0[1-9]|[1-9]| [1-9]
DayField(f) ==
  \/ TwoOf(f, {"3"}, {"0", "1"})
  \/ TensAndDigit(f, {"1", "2"})
  \/ TwoOf(f, {"0"}, Digits \ {"0"})
  \/ OneOf(f, Digits \ {"0"})
  \/ TwoOf(f, {" "}, Digits \ {"0"})

\* %H: 2[0-3]|[0-1]\d|\d
HourField(f) ==
  \/ TwoOf(f, {"2"}, {"0", "1", "2", "3"})
  \/ TensAndDigit(f, {"0", "1"})
  \/ OneOf(f, DecimalDigits)

\* %M: [0-5]\d|\d
MinuteField(f) ==
  \/ TensAndDigit(f, {"0", "1", "2", "3", "4", "5"})
  \/ OneOf(f, DecimalDigits)

\* %S: 6[0-1]|[0-5]\d|\d
SecondField(f) ==
  \/ TwoOf(f, {"6"}, {"0", "1"})
  \/ TensAndDigit(f, {"0", "1", "2", "3", "4", "5"})
  \/ OneOf(f, DecimalDigits)

\* the literals of the format "%Y-%m-%dT%H:%M:%SZ", matched without case
FormatLiterals == <<{"-"}, {"-"}, {"T", "t"}, {":"}, {":"}, {"Z", "z"}>>

\* the fields of s that the literals end, in order, then what follows the
\* last literal; fewer when a literal is missing
RECURSIVE ScanFields(_, _)
ScanFields(s, literals) ==
  IF literals = << >> THEN <<s>>
  ELSE IF FirstIn(s, Head(literals)) > Len(s) THEN << >>
  ELSE <<SubSeq(s, 1, FirstIn(s, Head(literals)) - 1)>>
         \o ScanFields(SubSeq(s, FirstIn(s, Head(literals)) + 1, Len(s)),
                       Tail(literals))

NoDateTime ==
  [ok |-> FALSE,
   dt |-> [year |-> 0, month |-> 0, day |-> 0,
           hour |-> 0, minute |-> 0, second |-> 0]]

\* datetime(y, m, d, h, mi, sec) of matched fields
DateTimeOf(y, m, d, h, mi, sec) ==
  IF y < 1 \/ d > DaysInMonth(y, m) \/ sec > 59 THEN NoDateTime
  ELSE [ok |-> TRUE,
        dt |-> [year |-> y, month |-> m, day |-> d,
                hour |-> h, minute |-> mi, second |-> sec]]

\* f: year, month, day, hour, minute, second, the rest
DateTimeOfFields(f) ==
  IF /\ Len(f) = 7
     /\ YearField(f[1])
     /\ MonthField(f[2])
     /\ DayField(f[3])
     /\ HourField(f[4])
     /\ MinuteField(f[5])
     /\ SecondField(f[6])
     /\ f[7] = << >>
  THEN DateTimeOf(DecVal(f[1]), DecVal(f[2]), DecVal(Strip(f[3])),
                  DecVal(f[4]), DecVal(f[5]), DecVal(f[6]))
  ELSE NoDateTime

\* datetime.datetime.strptime(s, "%Y-%m-%dT%H:%M:%SZ"); [ok |-> FALSE] is
\* ValueError.  The format's directives match as the regular expression
\* strptime builds from them (case-insensitive, 1 or 2 digits per field but
\* the year), the whole text has to be consumed, and the fields have to be a
\* date and time datetime accepts.
Strptime(s) == DateTimeOfFields(ScanFields(s, FormatLiterals))

\* second sod of the day ord
DateTimeAt(ord, sod, ymd) ==
  [year |-> ymd[1], month |-> ymd[2], day |-> ymd[3],
   hour |-> sod \div 3600, minute |-> (sod % 3600) \div 60,
   second |-> sod % 60]

AddToOrdinal(dt, ord, sod) ==
  IF ord < 1 \/ ord > 3652059 THEN [ok |-> FALSE, dt |-> dt]
  ELSE [ok |-> TRUE, dt |-> DateTimeAt(ord, sod, FromOrdinal(ord))]

\* dt + datetime.timedelta(seconds=n); [ok |-> FALSE] is OverflowError
\* (a date before year 1 or after year 9999)
AddSeconds(dt, n) ==
  AddToOrdinal(dt, ToOrdinal(dt) + (SecondOfDay(dt) + n) \div 86400,
               (SecondOfDay(dt) + n) % 86400)

\* dt.isoformat(sep='T', timespec='auto') of a naive datetime with no
\* microseconds: YYYY-MM-DDTHH:MM:SS
IsoFormat(dt) ==
  ZeroPad(dt.year, 4) \o <<"-">> \o ZeroPad(dt.month, 2) \o <<"-">>
    \o ZeroPad(dt.day, 2) \o <<"T">> \o ZeroPad(dt.hour, 2) \o <<":">>
    \o ZeroPad(dt.minute, 2) \o <<":">> \o ZeroPad(dt.second, 2)

----------------------------------------------------------------------------
(* Python dict, xml.etree.ElementTree.Element *)

\* d.get(k, default)
Get(d, k, default) == IF k \in DOMAIN d THEN d[k] ELSE default

EmptyDict == << >>

Element(tag, attrib, text, children) ==
  [tag |-> tag, attrib |-> attrib, text |-> text, children |-> children]

\* None where an Element is expected
NoElement == Element("None", EmptyDict, None, << >>)

\* the first of the indices hits
First(hits) == CHOOSE i \in hits : \A j \in hits : i <= j

\* el.find(tag): the first child with that tag, or None
Find(el, tag) ==
  IF \A i \in 1..Len(el.children) : el.children[i].tag # tag THEN NoElement
  ELSE el.children[First({i \in 1..Len(el.children) :
                            el.children[i].tag = tag})]

\* el.findall(tag): the children with that tag, in document order
FindAll(el, tag) == SelectSeq(el.children, LAMBDA c : c.tag = tag)

\* bool(el) of an Element or None: an Element with no children is false
ElementTruthy(el) == el # NoElement /\ Len(el.children) > 0

----------------------------------------------------------------------------
(* configparser.ConfigParser                                               *)
(*                                                                         *)
(* A ConfigParser is [interpolation, defaults, sections]: interpolation is *)
(* "BasicInterpolation" (what ConfigParser() has) or "None"                *)
(* (ConfigParser(interpolation=None)); defaults the options of its DEFAULT *)
(* section; sections the other sections, in order, each [name, options].   *)
(* The options of a section are a dict from option name to value, both     *)
(* texts, the name as optionxform stores it.                               *)

MAX_INTERPOLATION_DEPTH == 10

\* parser.optionxform(optionstr)
optionxform(optionstr) == Lower(optionstr)

\* the dict of one option
Opt(name, value) == optionxform(name) :> value

\* config[name] of the i-th section: the SectionProxy
SectionProxy(cfg, i) ==
  [name          |-> cfg.sections[i].name,
   options       |-> cfg.sections[i].options,
   defaults      |-> cfg.defaults,
   interpolation |-> cfg.interpolation]

\* the options a section's get looks in: its own, then those of DEFAULT
unify_values(section) == section.options @@ section.defaults

\* BasicInterpolation._interpolate_some: value with each "%%" replaced by
\* "%" and each "%(name)s" by the value of the option name of map,
\* interpolated in its turn.  A state of the interpolation is what was
\* accumulated so far and the calls of _interpolate_some under way, the
\* innermost first, each with the rest it has still to scan and its depth.
RECURSIVE interpolate_some(_, _)

Scan(rest, depth) == [rest |-> rest, depth |-> depth]

Interpolating(accum, calls) == [accum |-> accum, calls |-> calls]

\* rest starts with "%(" and q is the place of its first ")": the match of
\* %\(([^)]+)\)s, the lookup of the name, and the interpolation of its value
\* where that holds a "%"
interpolate_reference(accum, rest, depth, outer, map, q) ==
  IF q = 3 \/ q >= Len(rest) \/ rest[q + 1] # "s"
  THEN Raise("InterpolationSyntaxError")
  ELSE IF optionxform(SubSeq(rest, 3, q - 1)) \notin DOMAIN map
  THEN Raise("InterpolationMissingOptionError")
  ELSE IF ~HasChar(map[optionxform(SubSeq(rest, 3, q - 1))], "%")
  THEN interpolate_some(
         Interpolating(
           accum \o map[optionxform(SubSeq(rest, 3, q - 1))],
           <<Scan(SubSeq(rest, q + 2, Len(rest)), depth)>> \o outer),
         map)
  ELSE IF depth + 1 > MAX_INTERPOLATION_DEPTH
  THEN Raise("InterpolationDepthError")
  ELSE interpolate_some(
         Interpolating(
           accum,
           <<Scan(map[optionxform(SubSeq(rest, 3, q - 1))], depth + 1),
             Scan(SubSeq(rest, q + 2, Len(rest)), depth)>> \o outer),
         map)

\* one turn of the loop: p is the place of the first "%" of rest
interpolate_from(accum, rest, depth, outer, map, p) ==
  IF p > Len(rest)
  THEN interpolate_some(Interpolating(accum \o rest, outer), map)
  ELSE IF p < Len(rest) /\ rest[p + 1] = "%"
  THEN interpolate_some(
         Interpolating(
           accum \o SubSeq(rest, 1, p - 1) \o <<"%">>,
           <<Scan(SubSeq(rest, p + 2, Len(rest)), depth)>> \o outer),
         map)
  ELSE IF p < Len(rest) /\ rest[p + 1] = "("
  THEN interpolate_reference(accum \o SubSeq(rest, 1, p - 1),
                             SubSeq(rest, p, Len(rest)), depth, outer, map,
                             FirstIn(SubSeq(rest, p, Len(rest)), {")"}))
  ELSE Raise("InterpolationSyntaxError")

interpolate_some(state, map) ==
  IF state.calls = << >> THEN Return("str", state.accum)
  ELSE interpolate_from(state.accum, Head(state.calls).rest,
                        Head(state.calls).depth, Tail(state.calls), map,
                        FirstIn(Head(state.calls).rest, {"%"}))

\* BasicInterpolation.before_get
before_get(value, map) ==
  interpolate_some(Interpolating(<< >>, <<Scan(value, 1)>>), map)

\* section.get(option, fallback) of a SectionProxy
section_get(section, option, fallback) ==
  IF optionxform(option) \notin DOMAIN unify_values(section)
  THEN Return(IF fallback = None THEN "NoneType" ELSE "str", fallback)
  ELSE IF section.interpolation = "None"
  THEN Return("str", unify_values(section)[optionxform(option)])
  ELSE before_get(unify_values(section)[optionxform(option)],
                  unify_values(section))

----------------------------------------------------------------------------
(* inrcot/constants.py *)

DEFAULT_COT_STALE == <<"6", "0", "0">>

DEFAULT_COT_TYPE == <<"a", "-", "f", "-", "g", "-", "e", "-", "s">>

DEFAULT_FEED_USERNAME ==
  <<"I", "n", "R", "e", "a", "c", "h", "2", "T", "A", "K">>

----------------------------------------------------------------------------
(* inrcot/functions.py *)

\* the option names make_feed_conf reads
FEED_URL == <<"F", "E", "E", "D", "_", "U", "R", "L">>

COT_STALE == <<"C", "O", "T", "_", "S", "T", "A", "L", "E">>

COT_TYPE == <<"C", "O", "T", "_", "T", "Y", "P", "E">>

COT_ICON == <<"C", "O", "T", "_", "I", "C", "O", "N">>

COT_NAME == <<"C", "O", "T", "_", "N", "A", "M", "E">>

FEED_PASSWORD ==
  <<"F", "E", "E", "D", "_", "P", "A", "S", "S", "W", "O", "R", "D">>

FEED_USERNAME ==
  <<"F", "E", "E", "D", "_", "U", "S", "E", "R", "N", "A", "M", "E">>

\* the section name marker of create_feeds
FeedMarker == <<"i", "n", "r", "c", "o", "t", "_", "f", "e", "e", "d", "_">>

UidPrefix ==
  <<"G", "a", "r", "m", "i", "n", "-", "i", "n", "R", "e", "a", "c", "h", ".">>

CallsignSuffix == <<" ", "(", "i", "n", "R", "e", "a", "c", "h", ")">>

RemarksPrefix ==
  <<"G", "a", "r", "m", "i", "n", " ", "i", "n", "R", "e", "a", "c", "h", " ",
    "U", "s", "e", "r", ".", "\r", "\n", " ", "N", "a", "m", "e", ":", " ">>

\* the argument of create_tasks that owns the outbound queue
clitool == [tx_queue |-> "tx_queue"]

\* inrcot.Worker(queue, config, original_config)
Worker(queue, cfg, original_config) ==
  [queue |-> queue, config |-> cfg, original_config |-> original_config]

\* a variant of create_tasks: one Worker for each section that has the marker
create_tasks_per_feed(cfg, tool, original_config) ==
  {Worker(tool.tx_queue, cfg, original_config.sections[i]) :
     i \in {j \in 1..Len(original_config.sections) :
              Contains(original_config.sections[j].name, FeedMarker)}}

create_tasks(cfg, tool, original_config) ==
  {Worker(tool.tx_queue, cfg, original_config)}

\* a variant of split_feed: tests "document is None", so a Document with no
\* children gives an empty list
split_feed_is_none(content) ==
  IF ~content.wellformed THEN Raise("ParseError")
  ELSE IF Find(content.root, "Document") = NoElement
  THEN Return("NoneType", None)
  ELSE Return("list", FindAll(Find(content.root, "Document"), "Folder"))

\* content is the feed's bytes: well-formed XML with the root element root,
\* or not XML at all, which ET.parse refuses
split_feed(content) ==
  IF ~content.wellformed THEN Raise("ParseError")
  ELSE LET document == Find(content.root, "Document")
       IN  IF ~ElementTruthy(document) THEN Return("NoneType", None)
           ELSE Return("list", FindAll(document, "Folder"))

\* aiohttp.BasicAuth(login, password): the credential, its login and
\* password; a login that holds ":" is refused
BasicAuth(login, password) ==
  IF HasChar(login, ":") THEN Raise("ValueError")
  ELSE Return("BasicAuth", [login |-> login, password |-> password])

\* the first of the results that is a raise, if any
FirstRaise(got) == got[First({i \in 1..Len(got) : got[i].kind = "raise"})]

AnyRaise(got) == \E i \in 1..Len(got) : got[i].kind = "raise"

\* lines 80-84
feed_conf_with_auth(feed_conf, feed_auth) ==
  IF feed_auth.kind = "raise" THEN feed_auth
  ELSE Return("dict", ("feed_auth" :> feed_auth.value) @@ feed_conf)

\* lines 70-84, on what the seven calls of section.get gave, in their order:
\* FEED_URL, COT_STALE, COT_TYPE, COT_ICON, COT_NAME, FEED_PASSWORD,
\* FEED_USERNAME
feed_conf_of(got) ==
  IF AnyRaise(got) THEN FirstRaise(got)
  ELSE IF Truthy(got[6].value) /\ Truthy(got[7].value)
  THEN feed_conf_with_auth(
         [feed_url  |-> got[1].value, cot_stale |-> got[2].value,
          cot_type  |-> got[3].value, cot_icon  |-> got[4].value,
          cot_name  |-> got[5].value],
         BasicAuth(got[7].value, got[6].value))
  ELSE Return("dict",
              [feed_url  |-> got[1].value, cot_stale |-> got[2].value,
               cot_type  |-> got[3].value, cot_icon  |-> got[4].value,
               cot_name  |-> got[5].value])

\* a variant of make_feed_conf: FEED_USERNAME has no default
make_feed_conf_no_default(section) ==
  feed_conf_of(<<section_get(section, FEED_URL, None),
                 section_get(section, COT_STALE, DEFAULT_COT_STALE),
                 section_get(section, COT_TYPE, DEFAULT_COT_TYPE),
                 section_get(section, COT_ICON, None),
                 section_get(section, COT_NAME, None),
                 section_get(section, FEED_PASSWORD, None),
                 section_get(section, FEED_USERNAME, None)>>)

\* section is the SectionProxy of one configuration section
make_feed_conf(section) ==
  feed_conf_of(<<section_get(section, FEED_URL, None),
                 section_get(section, COT_STALE, DEFAULT_COT_STALE),
                 section_get(section, COT_TYPE, DEFAULT_COT_TYPE),
                 section_get(section, COT_ICON, None),
                 section_get(section, COT_NAME, None),
                 section_get(section, FEED_PASSWORD, None),
                 section_get(section, FEED_USERNAME, DEFAULT_FEED_USERNAME)>>)

\* line 95: feed_conf["feed_name"] = feed
named(feed, feed_conf) ==
  IF feed_conf.kind = "raise" THEN feed_conf
  ELSE Return("dict", ("feed_name" :> feed) @@ feed_conf.value)

\* lines 89-97, on the places of the sections that pass line 91, in order
feeds_of(cfg, marked) ==
  [i \in 1..Len(marked) |->
     named(cfg.sections[marked[i]].name,
           make_feed_conf(SectionProxy(cfg, marked[i])))]

feed_list(got) ==
  IF AnyRaise(got) THEN FirstRaise(got)
  ELSE Return("list", [i \in 1..Len(got) |-> got[i].value])

\* the places 1..n, in order
RECURSIVE Places(_)
Places(n) == IF n = 0 THEN << >> ELSE Append(Places(n - 1), n)

\* cfg is the ConfigParser
create_feeds(cfg) ==
  feed_list(feeds_of(cfg,
    SelectSeq(Places(Len(cfg.sections)), LAMBDA i :
      Contains(cfg.sections[i].name, FeedMarker))))

\* line 118: all([lat, lon]) of the split coordinates
lat_lon_given(parts) == Truthy(parts[2]) /\ Truthy(parts[1])

\* a variant of coordinates_accepted: the check of line 118 is left out
coordinates_accepted_count_only(coordinates) ==
  HasChar(coordinates, ",") /\ StrCount(coordinates, ",") = 2

\* lines 114-119: the coordinates text passes both checks (neither returns
\* None): exactly two commas, and lon and lat not empty
coordinates_accepted(coordinates) ==
  IF ~HasChar(coordinates, ",") \/ StrCount(coordinates, ",") # 2 THEN FALSE
  ELSE lat_lon_given(StrSplit(coordinates, ","))

\* the text str() gives for one output of transformer.transform(lat, lon,
\* alt); the geodetic transform itself (pyproj, EPSG:5499 -> EPSG:4979) is
\* left uninterpreted
Transformed(which, lat, lon, alt) ==
  <<which, "(">> \o lat \o <<",">> \o lon \o <<",">> \o alt \o <<")">>

\* transformer.transform(lat, lon, alt) on three texts
transform(lat, lon, alt) ==
  IF ~(IsFloat(lat) /\ IsFloat(lon) /\ IsFloat(alt)) THEN Raise("TypeError")
  ELSE Return("tuple",
              [hae_latitude  |-> Transformed("hae_latitude", lat, lon, alt),
               hae_longitude |-> Transformed("hae_longitude", lat, lon, alt),
               hae_alt       |-> Transformed("hae_alt", lat, lon, alt)])

\* line 138: the sum as ISO 8601 text
stale_text_of(sum) ==
  IF ~sum.ok THEN Raise("OverflowError")
  ELSE Return("str", IsoFormat(sum.dt))

\* lines 135-137: strptime(time) + timedelta(seconds=int(_cot_stale))
stale_sum(parsed, seconds) ==
  IF ~parsed.ok THEN Raise("ValueError")
  ELSE IF seconds.kind = "raise" THEN seconds
  ELSE stale_text_of(AddSeconds(parsed.dt, seconds.value))

\* a variant of cot_stale_text: the feed's cot_stale is not looked up
cot_stale_text_default_only(time, feed_conf) ==
  IF time = None THEN Raise("TypeError")
  ELSE stale_sum(Strptime(time), IntParse(DEFAULT_COT_STALE))

\* lines 134-138: the stale text of an entry reported at time
cot_stale_text(time, feed_conf) ==
  IF time = None THEN Raise("TypeError")
  ELSE stale_sum(Strptime(time),
                 IntParse(Get(feed_conf, "cot_stale", DEFAULT_COT_STALE)))

\* a variant of display_name: the cot_name override is not looked up
display_name_parsed_only(feed_conf, _name) == _name

\* line 142: the display name
display_name(feed_conf, _name) ==
  IF Truthy(Get(feed_conf, "cot_name", None))
  THEN Get(feed_conf, "cot_name", None)
  ELSE _name

\* line 175: the uid of the event
event_uid(name) == RemoveChar(UidPrefix \o Format(name), " ")

\* lines 145-150
point_element(hae) ==
  Element("point",
          [lat |-> hae.hae_latitude,
           lon |-> hae.hae_longitude,
           hae |-> hae.hae_alt,
           ce  |-> <<"9", "9", "9", "9", "9", "9", "9", ".", "0">>,
           le  |-> <<"9", "9", "9", "9", "9", "9", "9", ".", "0">>],
          None, << >>)

\* lines 152-153
contact_element(callsign) ==
  Element("contact", [callsign |-> Format(callsign) \o CallsignSuffix],
          None, << >>)

\* lines 158-163
remarks_element(_remarks) == Element("remarks", EmptyDict, _remarks, << >>)

\* lines 168-169
usericon_element(cot_icon) ==
  Element("usericon", [iconsetpath |-> cot_icon], None, << >>)

\* lines 155-170
detail_element(callsign, _remarks, cot_icon) ==
  Element("detail", [remarks |-> _remarks], None,
          IF Truthy(cot_icon)
          THEN <<contact_element(callsign), remarks_element(_remarks),
                 usericon_element(cot_icon)>>
          ELSE <<contact_element(callsign), remarks_element(_remarks)>>)

\* lines 140-185: the event element
build_event(feed_conf, name, time, cot_stale, hae) ==
  Element("event",
          [version |-> <<"2", ".", "0">>,
           type    |-> Get(feed_conf, "cot_type", DEFAULT_COT_TYPE),
           uid     |-> event_uid(name),
           how     |-> <<"m", "-", "g">>,
           time    |-> time,
           start   |-> time,
           stale   |-> cot_stale],
          None,
          <<point_element(hae),
            detail_element(name, RemarksPrefix \o Format(name),
                           Get(feed_conf, "cot_icon", None))>>)

\* lines 127-185, once the transform and the stale time were attempted
event_of(feed_conf, hae, cot_stale, name, time) ==
  IF hae.kind = "raise" THEN hae
  ELSE IF cot_stale.kind = "raise" THEN cot_stale
  ELSE Return("Element",
              build_event(feed_conf, name, time, cot_stale.value, hae.value))

\* lines 117-185: lon, lat, alt = parts
convert_parts(feed_conf, parts, _name, when) ==
  event_of(feed_conf, transform(parts[2], parts[1], parts[3]),
           cot_stale_text(when, feed_conf), display_name(feed_conf, _name),
           when)

\* lines 114-185, on the three texts of the Placemark
convert_texts(feed_conf, coordinates, _name, when) ==
  IF coordinates = None THEN Raise("TypeError")
  ELSE IF ~coordinates_accepted(coordinates) THEN Return("NoneType", None)
  ELSE convert_parts(feed_conf, StrSplit(coordinates, ","), _name, when)

\* lines 107-112, on the Placemark
convert_placemark(feed_conf, placemarks) ==
  IF placemarks = NoElement THEN Raise("AttributeError")
  ELSE IF Find(placemarks, "Point") = NoElement THEN Raise("AttributeError")
  ELSE IF Find(Find(placemarks, "Point"), "coordinates") = NoElement
  THEN Raise("AttributeError")
  ELSE IF Find(placemarks, "name") = NoElement THEN Raise("AttributeError")
  ELSE IF Find(placemarks, "TimeStamp") = NoElement
  THEN Raise("AttributeError")
  ELSE IF Find(Find(placemarks, "TimeStamp"), "when") = NoElement
  THEN Raise("AttributeError")
  ELSE convert_texts(feed_conf,
                     Find(Find(placemarks, "Point"), "coordinates").text,
                     Find(placemarks, "name").text,
                     Find(Find(placemarks, "TimeStamp"), "when").text)

\* feed is a Folder element; feed_conf a feed conf dict, EmptyDict when the
\* argument is omitted (None, which line 104 replaces by {})
inreach_to_cot_xml(feed, feed_conf) ==
  convert_placemark(feed_conf, Find(feed, "Placemark"))

\* an attribute of el, or of an element below it, is None
RECURSIVE HasNoneAttrib(_)
HasNoneAttrib(el) ==
  \/ \E k \in DOMAIN el.attrib : el.attrib[k] = None
  \/ \E i \in 1..Len(el.children) : HasNoneAttrib(el.children[i])

\* ET.tostring(el): TypeError (cannot serialize) for an attribute that is
\* None, else the bytes of the element, left uninterpreted
tostring(el) ==
  IF HasNoneAttrib(el) THEN Raise("TypeError")
  ELSE Return("bytes", <<"tostring", el>>)

\* line 191: ET.tostring(cot) if cot else None
rendered(cot) ==
  IF cot.kind = "raise" THEN cot
  ELSE IF cot.kind = "Element" /\ ElementTruthy(cot.value)
  THEN tostring(cot.value)
  ELSE Return("NoneType", None)

inreach_to_cot(content, feed_conf) ==
  rendered(inreach_to_cot_xml(content, feed_conf))

----------------------------------------------------------------------------
(* The inputs: configuration sections, KML folders, feed contents *)

Section(name, options) == [name |-> name, options |-> options]

\* the sections a configuration is made of
SectionPool ==
  {\* marker, FEED_USERNAME without FEED_PASSWORD, every default
   Section(<<"i", "n", "r", "c", "o", "t", "_", "f", "e", "e", "d", "_", "a">>,
           Opt(FEED_URL, <<"u">>)
             @@ Opt(FEED_USERNAME, <<"u">>)),
   \* marker inside the name, no FEED_URL, FEED_PASSWORD without FEED_USERNAME,
   \* a negative COT_STALE, a COT_NAME with a space and a tab
   Section(<<"x", "_", "i", "n", "r", "c", "o", "t", "_", "f", "e", "e", "d", "_", "b">>,
           Opt(FEED_PASSWORD, <<"p">>)
             @@ Opt(COT_STALE, <<"-", "6", "0">>)
             @@ Opt(COT_NAME, <<"N", " ", "M", "\t", "O">>)),
   \* no marker (the trailing underscore is missing)
   Section(<<"i", "n", "r", "c", "o", "t", "_", "f", "e", "e", "d">>,
           Opt(FEED_URL, <<"u">>)
             @@ Opt(FEED_USERNAME, <<"u">>)
             @@ Opt(FEED_PASSWORD, <<"p">>)),
   \* marker, both FEED_USERNAME and FEED_PASSWORD, a COT_STALE that is no
   \* integer, an icon and a type
   Section(<<"i", "n", "r", "c", "o", "t", "_", "f", "e", "e", "d", "_", "d">>,
           Opt(FEED_URL, <<"u">>)
             @@ Opt(FEED_USERNAME, <<"u">>)
             @@ Opt(FEED_PASSWORD, <<"p">>)
             @@ Opt(COT_STALE, <<"t", "e", "n">>)
             @@ Opt(COT_ICON, <<"i">>)
             @@ Opt(COT_TYPE, <<"a", "-", "h">>)),
   \* marker, an empty FEED_USERNAME with a FEED_PASSWORD, a day of COT_STALE
   Section(<<"i", "n", "r", "c", "o", "t", "_", "f", "e", "e", "d", "_", "e">>,
           Opt(FEED_URL, <<"u">>)
             @@ Opt(FEED_USERNAME, <<>>)
             @@ Opt(FEED_PASSWORD, <<"p">>)
             @@ Opt(COT_STALE, <<"8", "6", "4", "0", "0">>)),
   \* marker, an empty FEED_PASSWORD, an empty COT_NAME, COT_STALE 0
   Section(<<"i", "n", "r", "c", "o", "t", "_", "f", "e", "e", "d", "_", "f">>,
           Opt(FEED_USERNAME, <<"u">>)
             @@ Opt(FEED_PASSWORD, <<>>)
             @@ Opt(COT_NAME, <<>>)
             @@ Opt(COT_STALE, <<"0">>)),
   \* marker, a FEED_PASSWORD with a single "%", a COT_NAME with "%%"
   Section(<<"i", "n", "r", "c", "o", "t", "_", "f", "e", "e", "d", "_", "g">>,
           Opt(FEED_URL, <<"u">>)
             @@ Opt(COT_NAME, <<"5", "0", "%", "%">>)
             @@ Opt(FEED_PASSWORD, <<"1", "0", "0", "%">>)),
   \* marker, a FEED_URL that refers to the option base (of DEFAULT, if
   \* anywhere) and to cot_name, a COT_NAME with "%%", a COT_STALE of
   \* Arabic-Indic digits, a COT_ICON that refers in capitals to an option
   \* whose name is a letter above ASCII
   Section(<<"i", "n", "r", "c", "o", "t", "_", "f", "e", "e", "d", "_", "h">>,
           Opt(FEED_URL,
               <<"%", "(", "B", "A", "S", "E", ")", "s", "/",
                 "%", "(", "c", "o", "t", "_", "n", "a", "m", "e", ")", "s">>)
             @@ Opt(COT_NAME, <<"n", "%", "%">>)
             @@ Opt(COT_STALE, <<"U+0666", "U+0660", "U+0660">>)
             @@ Opt(COT_ICON, <<"%", "(", "U+00C9", ")", "s">>)
             @@ Opt(<<"U+00E9">>, <<"x">>)),
   \* marker, a COT_ICON that refers to itself, a reference left open in an
   \* option that is never read
   Section(<<"i", "n", "r", "c", "o", "t", "_", "f", "e", "e", "d", "_", "i">>,
           Opt(FEED_URL, <<"u">>)
             @@ Opt(COT_ICON, <<"%", "(", "c", "o", "t", "_", "i", "c", "o", "n", ")", "s">>)
             @@ Opt(<<"n", "o", "t", "e">>, <<"%", "(", "x">>)),
   \* marker, a FEED_USERNAME that holds ":", with a FEED_PASSWORD
   Section(<<"i", "n", "r", "c", "o", "t", "_", "f", "e", "e", "d", "_", "j">>,
           Opt(FEED_USERNAME, <<"a", ":", "b">>)
             @@ Opt(FEED_PASSWORD, <<"p">>))}

\* the DEFAULT section: empty, or with the option base and a FEED_PASSWORD
DefaultsPool ==
  {EmptyDict,
   Opt(<<"b", "a", "s", "e">>, <<"h">>) @@ Opt(FEED_PASSWORD, <<"d">>)}

ConfigParser(interpolation, defaults, sections) ==
  [interpolation |-> interpolation, defaults |-> defaults,
   sections |-> sections]

\* the lists of up to MaxSections sections with distinct names
SectionLists ==
  UNION {{c \in [1..n -> SectionPool] :
            \A i, j \in 1..n : i # j => c[i].name # c[j].name}
         : n \in 0..MaxSections}

\* the configurations
Configs ==
  {ConfigParser(interpolation, defaults, sections) :
     interpolation \in {"BasicInterpolation", "None"},
     defaults \in DefaultsPool,
     sections \in SectionLists}

Leaf(tag, text) == Element(tag, EmptyDict, text, << >>)

Node(tag, children) == Element(tag, EmptyDict, None, children)

\* a Folder with a complete Placemark
Folder(name, when, coordinates) ==
  Node("Folder",
       <<Node("Placemark",
              <<Leaf("name", name),
                Node("TimeStamp", <<Leaf("when", when)>>),
                Node("Point", <<Leaf("coordinates", coordinates)>>)>>)>>)

When2023 ==
  <<"2", "0", "2", "3", "-", "0", "1", "-", "0", "1", "T",
    "0", "0", ":", "0", "0", ":", "0", "0", "Z">>

WhenLeapDay ==
  <<"2", "0", "2", "4", "-", "0", "2", "-", "2", "9", "T",
    "2", "3", ":", "5", "5", ":", "0", "0", "Z">>

WhenYearEnd ==
  <<"2", "0", "2", "3", "-", "1", "2", "-", "3", "1", "T",
    "2", "3", ":", "5", "9", ":", "5", "9", "Z">>

JohnDoe == <<"J", "o", "h", "n", " ", "D", "o", "e">>

Coords == <<"-", "1", ".", "5", ",", "4", "5", ",", "9">>

GoodFolder == Folder(JohnDoe, When2023, Coords)

\* folders whose Placemark has a name, a when and a coordinates text
CompleteFolders ==
  {GoodFolder,
   Folder(<<"a", "\t", "b", "\n", "c">>, WhenLeapDay, <<"1", ",", "2", ",", "3">>),
   Folder(<<"T", "1">>, WhenYearEnd, <<"1", ",", "2", ",", "3">>),
   \* month, day, hour, minute and second of one digit
   Folder(<<"T", "1">>,
          <<"2", "0", "2", "3", "-", "1", "-", "1", "T", "0", ":", "0", ":", "0", "Z">>,
          <<"1", ",", "2", ",", "3">>),
   \* the first second of year 1
   Folder(<<"T", "1">>,
          <<"0", "0", "0", "1", "-", "0", "1", "-", "0", "1", "T",
           "0", "0", ":", "0", "0", ":", "0", "0", "Z">>,
          <<"1", ",", "2", ",", "3">>),
   \* a space for the T and no Z
   Folder(<<"T", "1">>,
          <<"2", "0", "2", "3", "-", "0", "1", "-", "0", "1", " ",
           "0", "0", ":", "0", "0", ":", "0", "0">>,
          <<"1", ",", "2", ",", "3">>),
   \* the year in FULLWIDTH digits
   Folder(<<"T", "1">>,
          <<"U+FF12", "U+FF10", "U+FF12", "U+FF13", "-", "0", "1", "-", "0", "1", "T",
           "0", "0", ":", "0", "0", ":", "0", "0", "Z">>,
          <<"1", ",", "2", ",", "3">>),
   Folder(<<"T", "1">>, When2023,
          <<"n", "a", "n", ",", "1", "_", "0", ",", "-", "I", "n", "f">>),
   Folder(<<"T", "1">>, When2023, <<"1", ",", "2">>),
   Folder(<<"T", "1">>, When2023, <<"1", ",", "2", ",", "3", ",", "4">>),
   Folder(<<"T", "1">>, When2023, <<"1">>),
   Folder(<<"T", "1">>, When2023, <<",", "2", ",", "3">>),
   Folder(<<"T", "1">>, When2023, <<"1", ",", ",", "3">>),
   Folder(<<"T", "1">>, When2023, <<"1", ",", "2", ",">>),
   Folder(<<"T", "1">>, When2023, <<",", ",">>)}

NameLeaf == Leaf("name", <<"T", "1">>)

WhenNode == Node("TimeStamp", <<Leaf("when", When2023)>>)

PointNode == Node("Point", <<Leaf("coordinates", <<"1", ",", "2", ",", "3">>)>>)

\* folders with a required field missing
IncompleteFolders ==
  {Node("Folder", << >>),
   Node("Folder", <<Node("Placemark", <<NameLeaf, WhenNode>>)>>),
   Node("Folder", <<Node("Placemark",
                         <<NameLeaf, WhenNode, Node("Point", << >>)>>)>>),
   Node("Folder", <<Node("Placemark",
                         <<NameLeaf, WhenNode,
                           Node("Point", <<Leaf("coordinates", None)>>)>>)>>),
   Node("Folder", <<Node("Placemark", <<WhenNode, PointNode>>)>>),
   Node("Folder", <<Node("Placemark", <<NameLeaf, PointNode>>)>>),
   Node("Folder", <<Node("Placemark",
                         <<NameLeaf, Node("TimeStamp", << >>), PointNode>>)>>),
   Node("Folder", <<Node("Placemark",
                         <<Leaf("name", None), WhenNode, PointNode>>)>>)}

FolderPool == CompleteFolders \cup IncompleteFolders

\* what a Document may hold: two different folders and an element that is
\* no Folder
ChildPool == {GoodFolder, Node("Folder", << >>), Leaf("name", <<"m">>)}

ChildLists == UNION {[1..n -> ChildPool] : n \in 0..MaxChildren}

WellFormed(root) == [wellformed |-> TRUE, root |-> root]

\* the feed contents: a kml root with a Document, a kml root without one, a
\* root that is itself the Document, and bytes that are no XML
Contents ==
  {WellFormed(Node("kml", <<Node("Document", cs)>>)) : cs \in ChildLists}
    \cup {WellFormed(Node("kml", <<Leaf("name", <<"m">>)>>)),
          WellFormed(Node("Document", <<GoodFolder>>)),
          [wellformed |-> FALSE, root |-> NoElement]}

----------------------------------------------------------------------------
(* The program.  Start-up: create_tasks, then the Worker it made builds    *)
(* its feeds with create_feeds.  Then the polling loop: in each cycle one  *)
(* of the module's functions is called, on any input; the next cycle       *)
(* starts with the result of the last one dropped.                         *)

Call(op, args, result) ==
  [op |-> op, args |-> args, kind |-> result.kind, value |-> result.value]

\* no call made
Idle == Call("none", << >>, Return("NoneType", None))

Range(f) == {f[i] : i \in DOMAIN f}

\* feed confs made by hand: none, one whose cot_stale is None, one whose
\* cot_type is None, one whose cot_stale has a vertical tab before the digits
DirectConfs ==
  {EmptyDict, [cot_stale |-> None], [cot_type |-> None],
   [cot_stale |-> <<"", "6", "0", "0">>]}

\* the feed confs a conversion may be given: those of the configuration,
\* or one made by hand
FeedConfs == Range(feeds) \cup DirectConfs

Init ==
  /\ config \in Configs
  /\ pc = "main"
  /\ tasks = {}
  /\ feeds = << >>
  /\ ret = Idle

CreateTasks ==
  /\ pc = "main"
  /\ tasks' = create_tasks(config, clitool, config)
  /\ ret' = Call("create_tasks", <<config>>, Return("set", tasks'))
  /\ pc' = "worker"
  /\ UNCHANGED <<config, feeds>>

\* a create_feeds that raises leaves the Worker without feeds
CreateFeeds ==
  /\ pc = "worker"
  /\ ret' = Call("create_feeds", <<config>>, create_feeds(config))
  /\ feeds' = IF ret'.kind = "raise" THEN << >> ELSE ret'.value
  /\ pc' = "sleep"
  /\ UNCHANGED <<config, tasks>>

NextCycle ==
  /\ pc = "sleep"
  /\ pc' = "run"
  /\ ret' = Idle
  /\ UNCHANGED <<config, tasks, feeds>>

MakeFeedConf ==
  /\ pc = "run"
  /\ \E i \in 1..Len(config.sections) :
       ret' = Call("make_feed_conf", <<SectionProxy(config, i)>>,
                   make_feed_conf(SectionProxy(config, i)))
  /\ pc' = "sleep"
  /\ UNCHANGED <<config, tasks, feeds>>

SplitFeed ==
  /\ pc = "run"
  /\ \E content \in Contents :
       ret' = Call("split_feed", <<content>>, split_feed(content))
  /\ pc' = "sleep"
  /\ UNCHANGED <<config, tasks, feeds>>

InreachToCotXml ==
  /\ pc = "run"
  /\ \E feed \in FolderPool, feed_conf \in FeedConfs :
       ret' = Call("inreach_to_cot_xml", <<feed, feed_conf>>,
                   inreach_to_cot_xml(feed, feed_conf))
  /\ pc' = "sleep"
  /\ UNCHANGED <<config, tasks, feeds>>

InreachToCot ==
  /\ pc = "run"
  /\ \E feed \in FolderPool, feed_conf \in FeedConfs :
       ret' = Call("inreach_to_cot", <<feed, feed_conf>>,
                   inreach_to_cot(feed, feed_conf))
  /\ pc' = "sleep"
  /\ UNCHANGED <<config, tasks, feeds>>

Next ==
  \/ CreateTasks
  \/ CreateFeeds
  \/ NextCycle
  \/ MakeFeedConf
  \/ SplitFeed
  \/ InreachToCotXml
  \/ InreachToCot

Spec == Init /\ [][Next]_vars

----------------------------------------------------------------------------
(* The claims.  What they need of a call: *)

Converting == ret.op \in {"inreach_to_cot_xml", "inreach_to_cot"}

\* the Folder and the feed conf a conversion was given
GivenFeed == ret.args[1]

GivenConf == ret.args[2]

\* the conversion returned an event (as an Element, or as its bytes)
Converted == Converting /\ ret.kind \in {"Element", "bytes"}

Event == IF ret.kind = "bytes" THEN ret.value[2] ELSE ret.value

\* the child of el with the tag, where el has one
Child(el, tag) ==
  el.children[CHOOSE i \in 1..Len(el.children) : el.children[i].tag = tag]

HasChild(el, tag) == \E i \in 1..Len(el.children) : el.children[i].tag = tag

\* the Placemark has a name, a TimeStamp/when and a Point/coordinates text
HasAllTexts(feed) ==
  /\ HasChild(feed, "Placemark")
  /\ HasChild(Child(feed, "Placemark"), "name")
  /\ Child(Child(feed, "Placemark"), "name").text # None
  /\ HasChild(Child(feed, "Placemark"), "TimeStamp")
  /\ HasChild(Child(Child(feed, "Placemark"), "TimeStamp"), "when")
  /\ Child(Child(Child(feed, "Placemark"), "TimeStamp"), "when").text # None
  /\ HasChild(Child(feed, "Placemark"), "Point")
  /\ HasChild(Child(Child(feed, "Placemark"), "Point"), "coordinates")
  /\ Child(Child(Child(feed, "Placemark"), "Point"), "coordinates").text
       # None

NameText(feed) == Child(Child(feed, "Placemark"), "name").text

WhenText(feed) ==
  Child(Child(Child(feed, "Placemark"), "TimeStamp"), "when").text

CoordinatesText(feed) ==
  Child(Child(Child(feed, "Placemark"), "Point"), "coordinates").text

\* the places of the commas of a text
Commas(c) == {i \in 1..Len(c) : c[i] = ","}

\* a text of exactly two commas, with something before the first (lon) and
\* something between the two (lat)
LonLatGiven(c) ==
  /\ Cardinality(Commas(c)) = 2
  /\ 1 \notin Commas(c)
  /\ \A i \in Commas(c) : i + 1 \notin Commas(c)

\* the feed conf's cot_stale is the text of an integer, or the conf has none
StaleIsInt(conf) ==
  "cot_stale" \in DOMAIN conf => IntParse(conf.cot_stale).kind = "int"

\* the seconds of a feed conf's cot_stale, 600 when it has none
StaleSeconds(conf) ==
  IF "cot_stale" \in DOMAIN conf THEN IntParse(conf.cot_stale).value ELSE 600

\* the date and time a text YYYY-MM-DDTHH:MM:SS stands for
IsoDateTime(t) ==
  [year   |-> DecVal(SubSeq(t, 1, 4)),   month  |-> DecVal(SubSeq(t, 6, 7)),
   day    |-> DecVal(SubSeq(t, 9, 10)),  hour   |-> DecVal(SubSeq(t, 12, 13)),
   minute |-> DecVal(SubSeq(t, 15, 16)), second |-> DecVal(SubSeq(t, 18, 19))]

IsIsoText(t) ==
  /\ Len(t) = 19
  /\ \A i \in 1..19 :
       IF i \in {5, 8} THEN t[i] = "-"
       ELSE IF i = 11 THEN t[i] = "T"
       ELSE IF i \in {14, 17} THEN t[i] = ":"
       ELSE t[i] \in Digits

\* the seconds from a to b
SecondsBetween(a, b) ==
  (ToOrdinal(b) - ToOrdinal(a)) * 86400 + SecondOfDay(b) - SecondOfDay(a)

\* the sections of the configuration that carry the feed marker
Marked ==
  {i \in 1..Len(config.sections) :
     Contains(config.sections[i].name, FeedMarker)}

\* the place in the feed list of the marked section i
Rank(i) == Cardinality({j \in Marked : j <= i})

\* C1: a folder with a name, a when and a coordinates text gives no event
\* (None) when the coordinates text has not exactly two commas or its first
\* (lon) or second (lat) field is empty, and gives an event only when it has
\* exactly two commas and both fields are given.
C1_CoordinatesGate ==
  (Converting /\ HasAllTexts(GivenFeed)) =>
     /\ ~LonLatGiven(CoordinatesText(GivenFeed)) => ret.kind = "NoneType"
     /\ Converted => LonLatGiven(CoordinatesText(GivenFeed))

\* inreach_to_cot gave None for a text of two commas with an empty lat
C1_Witness ==
  /\ ret.op = "inreach_to_cot"
  /\ HasAllTexts(GivenFeed)
  /\ CoordinatesText(GivenFeed) = <<"1", ",", ",", "3">>
  /\ ret.kind = "NoneType"

\* C2: the stale attribute of every event is the entry's when plus the feed
\* conf's cot_stale seconds (600 when the conf has none; an event is built
\* only with a cot_stale that is the text of an integer), written as
\* YYYY-MM-DDTHH:MM:SS without a timezone suffix; when 2023-01-01T00:00:00Z
\* and 600 seconds give 2023-01-01T00:10:00.
C2_StaleFromWhen ==
  Converted =>
     /\ StaleIsInt(GivenConf)
     /\ IsIsoText(Event.attrib.stale)
     /\ SecondsBetween(Strptime(WhenText(GivenFeed)).dt,
                       IsoDateTime(Event.attrib.stale))
          = StaleSeconds(GivenConf)
     /\ (WhenText(GivenFeed) = When2023 /\ StaleSeconds(GivenConf) = 600) =>
          Event.attrib.stale =
            <<"2", "0", "2", "3", "-", "0", "1", "-", "0", "1", "T",
              "0", "0", ":", "1", "0", ":", "0", "0">>

\* an entry of the last five minutes of a leap day, converted with a day of
\* cot_stale
C2_Witness ==
  /\ Converted
  /\ WhenText(GivenFeed) = WhenLeapDay
  /\ StaleIsInt(GivenConf)
  /\ StaleSeconds(GivenConf) = 86400
  /\ Event.attrib.stale =
       <<"2", "0", "2", "4", "-", "0", "3", "-", "0", "1", "T",
         "2", "3", ":", "5", "5", ":", "0", "0">>

\* the display name of the claim: the conf's cot_name when it is set, else
\* the name of the Placemark as text
DisplayName ==
  IF "cot_name" \in DOMAIN GivenConf /\ GivenConf.cot_name # None
       /\ GivenConf.cot_name # << >>
  THEN GivenConf.cot_name
  ELSE Format(NameText(GivenFeed))

\* the whitespace characters: those str.isspace() holds for
Whitespace ==
  AsciiSpace \cup {"", "", "", ""} \cup UnicodeSpace

\* C3 (as claimed): the uid of an event holds no whitespace character: it
\* is "Garmin-inReach." and the display name without its whitespace.
C3_UidNoWhitespace ==
  (ret.op = "inreach_to_cot_xml" /\ ret.kind = "Element") =>
     /\ \A i \in 1..Len(ret.value.attrib.uid) :
          ret.value.attrib.uid[i] \notin Whitespace
     /\ ret.value.attrib.uid
          = UidPrefix \o SelectSeq(DisplayName,
                                   LAMBDA ch : ch \notin Whitespace)

\* the option is set for the section: given in it or in DEFAULT, and not
\* empty
IsSet(section, option) ==
  /\ optionxform(option) \in DOMAIN unify_values(section)
  /\ unify_values(section)[optionxform(option)] # << >>

\* C4 (as claimed): feed_auth is in the feed conf if and only if both
\* FEED_USERNAME and FEED_PASSWORD are set for the section.
C4_AuthIffBothSet ==
  (ret.op = "make_feed_conf" /\ ret.kind = "dict") =>
     ("feed_auth" \in DOMAIN ret.value
        <=> (IsSet(ret.args[1], FEED_USERNAME)
               /\ IsSet(ret.args[1], FEED_PASSWORD)))

\* the password make_feed_conf reads for a section
ReadPassword(section) == section_get(section, FEED_PASSWORD, None).value

\* the user name make_feed_conf reads for a section
ReadUser(section) ==
  section_get(section, FEED_USERNAME,
              <<"I", "n", "R", "e", "a", "c", "h", "2", "T", "A", "K">>).value

\* the feed conf has the auth the amended claim gives the section
AuthAsRead(conf, section) ==
  /\ "feed_auth" \in DOMAIN conf
       <=> (Truthy(ReadPassword(section)) /\ Truthy(ReadUser(section)))
  /\ "feed_auth" \in DOMAIN conf =>
       /\ conf.feed_auth.login = ReadUser(section)
       /\ conf.feed_auth.password = ReadPassword(section)

\* C4 (amended): feed_auth is in a feed conf that make_feed_conf returns if
\* and only if the FEED_PASSWORD the section gives is not empty and the user
\* name is not empty, the user name being the FEED_USERNAME the section
\* gives or, where it gives none, "InReach2TAK"; the auth holds that user
\* name and that password.
C4_AuthIffPasswordAndUser ==
  /\ (ret.op = "make_feed_conf" /\ ret.kind = "dict") =>
       AuthAsRead(ret.value, ret.args[1])
  /\ (ret.op = "create_feeds" /\ ret.kind = "list") =>
       \A i \in Marked :
          AuthAsRead(ret.value[Rank(i)], SectionProxy(config, i))

\* a section with a FEED_PASSWORD and, DEFAULT included, no FEED_USERNAME
\* got auth
C4_Witness ==
  /\ ret.op = "make_feed_conf"
  /\ ret.kind = "dict"
  /\ optionxform(FEED_USERNAME) \notin DOMAIN unify_values(ret.args[1])
  /\ optionxform(FEED_PASSWORD) \in DOMAIN ret.args[1].options
  /\ "feed_auth" \in DOMAIN ret.value
  /\ ret.value.feed_auth.login = DEFAULT_FEED_USERNAME

\* the Document of a feed: the first child of the root with that tag
HasDocument(content) == HasChild(content.root, "Document")

Document(content) ==
  content.root.children[
    CHOOSE i \in 1..Len(content.root.children) :
      /\ content.root.children[i].tag = "Document"
      /\ \A j \in 1..(i - 1) : content.root.children[j].tag # "Document"]

\* the places of the Folders among the children of el
Folders(el) == {i \in 1..Len(el.children) : el.children[i].tag = "Folder"}

\* list is the Folders of el, in document order
IsFoldersOf(list, el) ==
  /\ Len(list) = Cardinality(Folders(el))
  /\ \A i \in Folders(el) :
       list[Cardinality({j \in Folders(el) : j <= i})] = el.children[i]

\* C5 (as claimed): on a well-formed feed split_feed returns a list: the
\* Folders of the Document in document order, and an empty list when there
\* is no Document.
C5_AlwaysAList ==
  (ret.op = "split_feed" /\ ret.args[1].wellformed) =>
     /\ ret.kind = "list"
     /\ IF HasDocument(ret.args[1])
        THEN IsFoldersOf(ret.value, Document(ret.args[1]))
        ELSE ret.value = << >>

\* C5 (amended): on a well-formed feed split_feed never raises; when the
\* root has a Document with at least one child element it returns the
\* Folders of that Document, in document order (none when no child is a
\* Folder); when the root has no Document, or the Document has no child
\* element, it returns None.
C5_FoldersOrNone ==
  (ret.op = "split_feed" /\ ret.args[1].wellformed) =>
     IF HasDocument(ret.args[1])
          /\ Len(Document(ret.args[1]).children) > 0
     THEN ret.kind = "list"
            /\ IsFoldersOf(ret.value, Document(ret.args[1]))
     ELSE ret.kind = "NoneType"

\* split_feed returned None for a well-formed feed without a Document
C5_Witness ==
  /\ ret.op = "split_feed"
  /\ ret.args[1].wellformed
  /\ ~HasDocument(ret.args[1])
  /\ ret.kind = "NoneType"

\* C6 (as claimed): create_feeds returns one feed conf for each section
\* whose name holds "inrcot_feed_", in the sections' order, and none for
\* another section; the conf's feed_name is the section's name.
C6_FeedsAreMarkedSections ==
  ret.op = "create_feeds" =>
     /\ ret.kind = "list"
     /\ Len(ret.value) = Cardinality(Marked)
     /\ \A i \in Marked :
          ret.value[Rank(i)].feed_name = config.sections[i].name

\* C7 (as claimed): inreach_to_cot never raises; a folder it cannot convert
\* gives None.
C7_NeverRaises == ret.op = "inreach_to_cot" => ret.kind # "raise"

\* C8 (as claimed, for a configuration that has feeds): create_tasks returns
\* one task for each feed section.
C8_TaskPerFeed ==
  (pc # "main" /\ Cardinality(Marked) >= 1) =>
     Cardinality(tasks) = Cardinality(Marked)

\* C8 (amended): create_tasks returns exactly one task, a Worker on the
\* outbound queue and the whole configuration, however many feed sections
\* the configuration has.
C8_OneWorker ==
  pc # "main" =>
     /\ Cardinality(tasks) = 1
     /\ \A w \in tasks :
          w.queue = clitool.tx_queue /\ w.original_config = config

\* one task for a configuration of two feed sections
C8_Witness ==
  /\ ret.op = "create_tasks"
  /\ Cardinality(Marked) = 2
  /\ Cardinality(ret.value) = 1

\* a is not earlier than b
NotEarlier(a, b) ==
  \/ ToOrdinal(a) > ToOrdinal(b)
  \/ ToOrdinal(a) = ToOrdinal(b) /\ SecondOfDay(a) >= SecondOfDay(b)

\* C9 (as claimed): the stale time of an event built with a feed conf of
\* create_feeds is never earlier than its time and start, the entry's when.
C9_StaleNotBeforeTime ==
  (Converted /\ GivenConf \in Range(feeds)) =>
     /\ Event.attrib.time = WhenText(GivenFeed)
     /\ Event.attrib.start = WhenText(GivenFeed)
     /\ NotEarlier(IsoDateTime(Event.attrib.stale),
                   Strptime(Event.attrib.time).dt)

\* C10: the uid, the callsign, the remarks attribute of detail and the text
\* of the remarks node of an event are made of one display name, the conf's
\* cot_name when set and else the Placemark's name: the uid is
\* "Garmin-inReach." and the name, without the spaces; the callsign the name
\* and " (inReach)"; both remarks "Garmin inReach User.\r\n Name: " and the
\* name.
C10_OneDisplayName ==
  (ret.op = "inreach_to_cot_xml" /\ ret.kind = "Element") =>
     /\ ret.value.attrib.uid
          = UidPrefix \o SelectSeq(DisplayName, LAMBDA ch : ch # " ")
     /\ Child(Child(ret.value, "detail"), "contact").attrib.callsign
          = DisplayName \o CallsignSuffix
     /\ Child(ret.value, "detail").attrib.remarks = RemarksPrefix \o DisplayName
     /\ Child(Child(ret.value, "detail"), "remarks").text
          = Child(ret.value, "detail").attrib.remarks

\* an event built with a cot_name, for a Placemark of another name
C10_Witness ==
  /\ ret.op = "inreach_to_cot_xml"
  /\ ret.kind = "Element"
  /\ "cot_name" \in DOMAIN GivenConf
  /\ GivenConf.cot_name = <<"N", " ", "M", "\t", "O">>
  /\ NameText(GivenFeed) = JohnDoe
  /\ Child(Child(ret.value, "detail"), "contact").attrib.callsign
       = <<"N", " ", "M", "\t", "O">> \o CallsignSuffix

====
